---- MODULE Spec2Model ----
(***************************************************************************)
(* Game-session engine of the chat backend: the dice variant               *)
(* (services/dicebotService.js, events/dicebotEvents.js) and the card      *)
(* variant (services/lowcardService.js, events/lowcardEvents.js) of one    *)
(* room.  Every handler is an async function: each `await` on the store or *)
(* the ledger is a suspension point at which the handlers of other socket  *)
(* events and timer callbacks run.  A handler in flight is a task; one     *)
(* action is the code between two suspension points.  The store reads that *)
(* open a handler (bot flag, role, session document) are taken together,   *)
(* and so is a refund loop with the read before it: its ledger increments  *)
(* commute with every step of the other handlers.                          *)
(***************************************************************************)
EXTENDS Integers, Sequences, FiniteSets, TLC

(* ------------------------------ bounds --------------------------------- *)
NumUsers == 2
MaxTasks == 2
MaxSessions == 2
InitCredits == 2
MaxAmount == 1
MaxBotAdds == 1
MaxTagged == 1
MaxRounds == 3
MaxStake == 6
MaxCardPlayers == 4
MaxRacePlayers == 3
MaxCard == 3
MaxCardEntry == 7
MaxPending == 2

(* ------------------------- program constants --------------------------- *)
MIN_ENTRY == 1
MAX_ENTRY == 999999999
LOWCARD_DEFAULT_AMOUNT == 50
HOUSE_FEE_PERCENT == 10

Users == 1..NumUsers
TaskIds == 1..MaxTasks
Variants == {"dice", "lowcard"}

\* users.role IN ('admin', 'super_admin'); rooms.owner_id / room_admins
SysAdmins == {1}
RoomAdmins == {1, NumUsers + 1}

\* the senders of bot commands: the users, and the room's owner, who has no
\* administrator role and plays no game
Staff == Users \cup RoomAdmins

\* the text after "!start": no argument, or an integer
StartArgs == {<<>>} \cup {<<a>> : a \in 0..MaxAmount}

VARIABLES
  botFlag,     \* botFlag[v]: the key <v>:bot:<room> exists
  game,        \* game[v]: the document under <v>:game:<room>, or NoGame
  lock,        \* lock[v]: the key <v>:lock:<room> exists
  credits,     \* credits[u]: users.credits
  tagged,      \* tagged[u]: the promotional sub-balance merchantTagService keeps
  joinTimer,   \* joinTimer[v]: activeTimers holds the room's join timer (0: none;
               \* otherwise the id of the session it was armed for)
  actionTimer, \* actionTimer[v]: activeTimers holds the room's roll / draw timer
  countdown,   \* countdown[v]: the 3-second countdowns set and not yet run
  roundEnd,    \* roundEnd[v]: the processRoundEnd calls a last roll / draw has
               \* set and that have not yet run
  cleanup,     \* cleanup[v]: the deletions of a finished session set and not yet run
  tasks,       \* the handlers and timer callbacks in flight, oldest first
  nextId,      \* the next session id (Date.now() at creation)
  expired,     \* Date.now() is past the joinDeadline of the sessions up to this id
  maxInFlight, \* how many handlers the scheduling lets overlap
  botAdds,     \* how many times a bot was added to the room
  elapsed,     \* Date.now() is past the countdownEndsAt of the card rounds up
               \* to this number
  sending,     \* the chat message sendMessage is working on, or NoMessage
  emitted,     \* what sendMessage has emitted for it, to the sender or the room
  handlerCalls, \* the game command handlers sendMessage has called for it
  activeType   \* the room's active-game-type marker of gameStateManager

vars == <<botFlag, game, lock, credits, tagged, joinTimer, actionTimer,
          countdown, roundEnd, cleanup, tasks, nextId, expired, maxInFlight,
          botAdds, elapsed, sending, emitted, handlerCalls, activeType>>

\* the message pipeline of events/chatEvents.js
chat == <<sending, emitted, handlerCalls>>

\* what no handler of a session changes
env == <<maxInFlight, botAdds, elapsed, chat, activeType>>

\* the timeouts that no entry of activeTimers holds: they cannot be cleared
deferred == <<countdown, roundEnd, cleanup>>

(* ---------------------------- documents -------------------------------- *)
NoGame == [status |-> "absent"]

\* the player entry startGame and joinGame create
NewPlayer(v, u) ==
  IF v = "dice"
  THEN [userId |-> u, isEliminated |-> FALSE, hasRolled |-> FALSE,
        die1 |-> 0, die2 |-> 0, total |-> 0, isIn |-> "null",
        hasImmunity |-> FALSE, earnedImmunity |-> FALSE]
  ELSE [userId |-> u, isEliminated |-> FALSE, hasDrawn |-> FALSE,
        currentCard |-> 0]

\* the session document startGame writes; a field the code leaves undefined
\* is 0 (countdownEndsAt) or the empty set (previousTiedLosers)
NewGame(v, id, u, entryAmount) ==
  IF v = "dice"
  THEN [id |-> id, status |-> "waiting", entryAmount |-> entryAmount,
        pot |-> entryAmount, currentRound |-> 0, botTarget |-> 0,
        players |-> <<NewPlayer(v, u)>>]
  ELSE [id |-> id, status |-> "waiting", entryAmount |-> entryAmount,
        pot |-> entryAmount, currentRound |-> 0, countdownEndsAt |-> 0,
        previousTiedLosers |-> {}, players |-> <<NewPlayer(v, u)>>]

\* the user ids of a list of players, in the list's order
Ids(players) == [i \in 1..Len(players) |-> players[i].userId]

PlayerIds(g) == {g.players[i].userId : i \in 1..Len(g.players)}

Active(g) == g.status \in {"waiting", "playing"}

(* ------------------------------ ledger --------------------------------- *)
\* deductCredits with an UPDATE that has no condition on the balance
CanDeduct_Unconditional(u, amount) == TRUE

\* deductCredits: UPDATE users SET credits = credits - $1 WHERE credits >= $1
CanDeduct(u, amount) == credits[u] >= amount

Deducted(u, amount) == [credits EXCEPT ![u] = @ - amount]

\* merchantTagService.consumeForGame: the part of the amount taken from the
\* promotional sub-balance, as much of it as the sub-balance holds
ConsumeForGame(taggedBalance, amount) ==
  IF taggedBalance < amount THEN taggedBalance ELSE amount

\* deductCredits: usedTaggedCredits, consumeForGame being called only with a
\* positive sub-balance
UsedTaggedCredits(u, amount) ==
  IF tagged[u] > 0 THEN ConsumeForGame(tagged[u], amount) ELSE 0

\* deductCredits: remainingAmount, what is left for the main balance
RemainingAmount(u, amount) == amount - UsedTaggedCredits(u, amount)

\* deductCredits returns success
DeductSucceeds(u, amount) ==
  RemainingAmount(u, amount) <= 0 \/ CanDeduct(u, RemainingAmount(u, amount))

\* deductCredits: the sub-balance after the call, whatever it returns
TaggedAfterDeduct(u, amount) ==
  [tagged EXCEPT ![u] = @ - UsedTaggedCredits(u, amount)]

\* deductCredits: the main balances after the call
CreditsAfterDeduct(u, amount) ==
  IF RemainingAmount(u, amount) > 0 /\ CanDeduct(u, RemainingAmount(u, amount))
  THEN Deducted(u, RemainingAmount(u, amount))
  ELSE credits

\* addCredits: UPDATE users SET credits = credits + $1
Added(c, u, amount) == [c EXCEPT ![u] = @ + amount]

\* a refund loop: addCredits(player.userId, game.entryAmount) for each of `who`
RECURSIVE Refunded(_, _, _)
Refunded(c, who, amount) ==
  IF who = <<>> THEN c
  ELSE Refunded(Added(c, who[1], amount), Tail(who), amount)

(* ------------------------------ tasks ---------------------------------- *)
\* the scheduling lets one more handler start
CanSpawn == Len(tasks) < maxInFlight

Spawn(r) == tasks' = Append(tasks, r)

At(t, kind, pc) == t <= Len(tasks) /\ tasks[t].kind = kind /\ tasks[t].pc = pc

Finish(t) == tasks' = SubSeq(tasks, 1, t - 1) \o SubSeq(tasks, t + 1, Len(tasks))

Goto(t, pc) == tasks' = [tasks EXCEPT ![t].pc = pc]

(* --------------------------- !start ------------------------------------ *)
\* handleDicebotCommand / handleLowcardCommand: the amount handed to startGame
HandlerAmount(v, args) ==
  IF v = "dice"
  THEN IF args = <<>> \/ args[1] = 0 THEN MIN_ENTRY ELSE args[1]
  ELSE IF args = <<>> THEN LOWCARD_DEFAULT_AMOUNT ELSE args[1]

\* startGame: parseInt(amount) || MIN_ENTRY
RequestedAmount(amount) == IF amount = 0 THEN MIN_ENTRY ELSE amount

\* startGame: the entry amount, the request capped at MAX_ENTRY
EntryAmount(v, requested) ==
  IF v = "dice" /\ requested > MAX_ENTRY THEN MAX_ENTRY ELSE requested

\* the handler has read the bot flag; startGame: redis.set(lockKey, '1', 'EX', 5, 'NX').
\* A caller that finds the lock held is told to wait and changes nothing.
StartLock(v, u, args) ==
  /\ CanSpawn
  /\ botFlag[v]
  /\ IF lock[v]
     THEN UNCHANGED <<tasks, lock>>
     ELSE /\ lock' = [lock EXCEPT ![v] = TRUE]
          /\ Spawn([kind |-> "start", v |-> v, user |-> u, pc |-> "read",
                    amount |-> HandlerAmount(v, args), id |-> 0, ok |-> FALSE])
  /\ UNCHANGED <<actionTimer, deferred, tagged, botFlag, game, credits, joinTimer, nextId, expired, env>>

\* startGame without its check of the stored session's status
StartRejected_NoStatusCheck(g, v, amount) ==
  \/ RequestedAmount(amount) < MIN_ENTRY
  \/ v = "lowcard" /\ RequestedAmount(amount) > MAX_ENTRY

\* startGame's checks on the stored session and on the amount
StartRejected(g, v, amount) ==
  \/ Active(g)
  \/ RequestedAmount(amount) < MIN_ENTRY
  \/ v = "lowcard" /\ RequestedAmount(amount) > MAX_ENTRY

\* redis.get(gameKey) and the checks that follow it
StartRead(t) ==
  /\ At(t, "start", "read")
  /\ IF StartRejected(game[tasks[t].v], tasks[t].v, tasks[t].amount)
     THEN Goto(t, "unlock")
     ELSE tasks' = [tasks EXCEPT ![t].pc = "debit",
            ![t].amount = EntryAmount(tasks[t].v, RequestedAmount(tasks[t].amount))]
  /\ UNCHANGED <<actionTimer, deferred, tagged, botFlag, game, lock, credits, joinTimer, nextId, expired, env>>

\* deductCredits(userId, entryAmount); gameId = Date.now()
StartDebit(t) ==
  /\ At(t, "start", "debit")
  /\ nextId <= MaxSessions
  /\ credits' = CreditsAfterDeduct(tasks[t].user, tasks[t].amount)
  /\ tagged' = TaggedAfterDeduct(tasks[t].user, tasks[t].amount)
  /\ IF DeductSucceeds(tasks[t].user, tasks[t].amount)
     THEN /\ nextId' = nextId + 1
          /\ tasks' = [tasks EXCEPT ![t].pc = "write", ![t].id = nextId]
     ELSE /\ Goto(t, "unlock")
          /\ UNCHANGED nextId
  /\ UNCHANGED <<actionTimer, deferred, botFlag, game, lock, joinTimer, expired, env>>

\* redis.set(gameKey, JSON.stringify(game))
StartWrite(t) ==
  /\ At(t, "start", "write")
  /\ game' = [game EXCEPT ![tasks[t].v] =
       NewGame(tasks[t].v, tasks[t].id, tasks[t].user, tasks[t].amount)]
  /\ tasks' = [tasks EXCEPT ![t].pc = "unlock", ![t].ok = TRUE]
  /\ UNCHANGED <<actionTimer, deferred, tagged, botFlag, lock, credits, joinTimer, nextId, expired, env>>

\* finally { redis.del(lockKey) }
StartUnlock(t) ==
  /\ At(t, "start", "unlock")
  /\ lock' = [lock EXCEPT ![tasks[t].v] = FALSE]
  /\ IF tasks[t].ok THEN Goto(t, "arm") ELSE Finish(t)
  /\ UNCHANGED <<actionTimer, deferred, tagged, botFlag, game, credits, joinTimer, nextId, expired, env>>

\* the handler on success: startJoinTimer (clearGameTimers, then setTimeout)
StartArm(t) ==
  /\ At(t, "start", "arm")
  /\ joinTimer' = [joinTimer EXCEPT ![tasks[t].v] = tasks[t].id]
  /\ actionTimer' = [actionTimer EXCEPT ![tasks[t].v] = FALSE]
  /\ Finish(t)
  /\ UNCHANGED <<deferred, tagged, botFlag, game, lock, credits, nextId, expired, env>>

\* the lock key's expiry ('EX', 5) passes while the lock is held
LockExpire(v) ==
  /\ lock[v]
  /\ lock' = [lock EXCEPT ![v] = FALSE]
  /\ UNCHANGED <<actionTimer, deferred, tagged, botFlag, game, credits, joinTimer, tasks, nextId, expired, env>>

(* ----------------------------- !j ------------------------------------- *)
\* joinGame without its check of the players already in the session
JoinRejected_NoMembershipCheck(g, u) ==
  \/ g.status # "waiting"
  \/ g.id <= expired

\* joinGame's checks on the session it read
JoinRejected(g, u) ==
  \/ g.status # "waiting"
  \/ g.id <= expired
  \/ u \in PlayerIds(g)

\* joinGame without the increment of the pot
Joined_NoPot(g, v, u) ==
  [g EXCEPT !.players = Append(@, NewPlayer(v, u))]

\* joinGame: game.players.push(...); game.pot += game.entryAmount
Joined(g, v, u) ==
  [g EXCEPT !.players = Append(@, NewPlayer(v, u)), !.pot = @ + g.entryAmount]

\* the handler has read the bot flag; joinGame: redis.get(gameKey) and the
\* checks.  A rejected join is reported to the caller and changes nothing.
JoinRead(v, u) ==
  /\ CanSpawn
  /\ botFlag[v]
  /\ IF JoinRejected(game[v], u)
     THEN UNCHANGED tasks
     ELSE Spawn([kind |-> "join", v |-> v, user |-> u, pc |-> "debit", g |-> game[v]])
  /\ UNCHANGED <<actionTimer, deferred, tagged, botFlag, game, lock, credits, joinTimer, nextId, expired, env>>

\* deductCredits(userId, game.entryAmount)
JoinDebit(t) ==
  /\ At(t, "join", "debit")
  /\ credits' = CreditsAfterDeduct(tasks[t].user, tasks[t].g.entryAmount)
  /\ tagged' = TaggedAfterDeduct(tasks[t].user, tasks[t].g.entryAmount)
  /\ IF DeductSucceeds(tasks[t].user, tasks[t].g.entryAmount)
     THEN Goto(t, "write")
     ELSE Finish(t)
  /\ UNCHANGED <<actionTimer, deferred, botFlag, game, lock, joinTimer, nextId, expired, env>>

\* redis.set(gameKey, JSON.stringify(game)): the whole document is written back
JoinWrite(t) ==
  /\ At(t, "join", "write")
  /\ game' = [game EXCEPT ![tasks[t].v] = Joined(tasks[t].g, tasks[t].v, tasks[t].user)]
  /\ Finish(t)
  /\ UNCHANGED <<actionTimer, deferred, tagged, botFlag, lock, credits, joinTimer, nextId, expired, env>>

\* redis.set throws: joinGame has no handler for it, the debit stays
JoinWriteFail(t) ==
  /\ At(t, "join", "write")
  /\ Finish(t)
  /\ UNCHANGED <<actionTimer, deferred, tagged, botFlag, game, lock, credits, joinTimer, nextId, expired, env>>

(* ------------------- join timer: beginGame ----------------------------- *)
\* beginGame does nothing unless the session exists and is waiting
BeginSkipped(g) == g.status # "waiting"

\* beginGame without its refund loop
BeginRefundees_None(g) == <<>>

\* beginGame: the players refunded when fewer than two joined
BeginRefundees(g) == IF Len(g.players) < 2 THEN Ids(g.players) ELSE <<>>

\* beginGame: the document of the game that begins
Began(v, g) ==
  IF v = "dice"
  THEN [g EXCEPT !.status = "playing", !.currentRound = 0]
  ELSE [g EXCEPT !.status = "playing", !.currentRound = 1,
                 !.countdownEndsAt = 1,
                 !.players = [i \in 1..Len(g.players) |->
                    [g.players[i] EXCEPT !.hasDrawn = FALSE, !.currentCard = 0]]]

\* the join timer fires (JOIN_TIMEOUT after it was armed, so past the
\* joinDeadline of the session it was armed for): activeTimers.delete(joinKey);
\* beginGame: redis.get(gameKey); with fewer than two players the refund loop
BeginRead(v) ==
  /\ CanSpawn
  /\ joinTimer[v] # 0
  /\ joinTimer' = [joinTimer EXCEPT ![v] = 0]
  /\ expired' = IF joinTimer[v] > expired THEN joinTimer[v] ELSE expired
  /\ LET g == game[v] IN
       IF BeginSkipped(g)
       THEN UNCHANGED <<tasks, credits>>
       ELSE IF Len(g.players) < 2
       THEN /\ credits' = Refunded(credits, BeginRefundees(g), g.entryAmount)
            /\ Spawn([kind |-> "begin", v |-> v, pc |-> "del"])
       ELSE /\ Spawn([kind |-> "begin", v |-> v, g |-> g, pc |-> "write"])
            /\ UNCHANGED credits
  /\ UNCHANGED <<actionTimer, deferred, tagged, botFlag, game, lock, nextId, env>>

\* beginGame, not enough players: redis.del(gameKey)
BeginDel(t) ==
  /\ At(t, "begin", "del")
  /\ game' = [game EXCEPT ![tasks[t].v] = NoGame]
  /\ Finish(t)
  /\ UNCHANGED <<actionTimer, deferred, tagged, botFlag, lock, credits, joinTimer, nextId, expired, env>>

\* beginGame: redis.set(gameKey, ...) with status 'playing'; the timer
\* callback then sets the countdown to the first round
BeginWrite(t) ==
  /\ At(t, "begin", "write")
  /\ game' = [game EXCEPT ![tasks[t].v] = Began(tasks[t].v, tasks[t].g)]
  /\ countdown' = [countdown EXCEPT ![tasks[t].v] = @ + 1]
  /\ Finish(t)
  /\ UNCHANGED <<actionTimer, roundEnd, cleanup, tagged, botFlag, lock, credits, joinTimer, nextId, expired, env>>

(* ---------------------- !cancel (dice variant) ------------------------- *)
NotEliminated(p) == ~p.isEliminated

\* cancelGame: the players refunded
CancelRefundees(g) == Ids(SelectSeq(g.players, NotEliminated))

\* cancelGame refuses a missing or finished session
CancelRejected(g) == g.status \in {"absent", "finished"}

\* handleDicebotCommand: the bot flag and the role checks; a caller who is no
\* admin is refused.  Then clearGameTimers; cancelGame: redis.get(gameKey) and
\* the refund loop
CancelRead(u) ==
  /\ CanSpawn
  /\ botFlag["dice"]
  /\ LET g == game["dice"] IN
       IF u \in RoomAdmins \cup SysAdmins
       THEN /\ joinTimer' = [joinTimer EXCEPT !["dice"] = 0]
            /\ actionTimer' = [actionTimer EXCEPT !["dice"] = FALSE]
            /\ IF CancelRejected(g)
               THEN UNCHANGED <<tasks, credits>>
               ELSE /\ credits' = Refunded(credits, CancelRefundees(g), g.entryAmount)
                    /\ Spawn([kind |-> "cancel", v |-> "dice", pc |-> "del"])
       ELSE UNCHANGED <<joinTimer, actionTimer, tasks, credits>>
  /\ UNCHANGED <<deferred, tagged, botFlag, game, lock, nextId, expired, env>>

\* cancelGame: redis.del(gameKey)
CancelDel(t) ==
  /\ At(t, "cancel", "del")
  /\ game' = [game EXCEPT !["dice"] = NoGame]
  /\ Finish(t)
  /\ UNCHANGED <<actionTimer, deferred, tagged, botFlag, lock, credits, joinTimer, nextId, expired, env>>

(* ---------------------- /bot stop (card variant) ----------------------- *)
\* stopGame with a refund loop that passes over the first player
StopRefundees_SkipFirst(g) == Tail(Ids(g.players))

\* stopGame: the players refunded
StopRefundees(g) == Ids(g.players)

\* stopGame without its refusal of a game that has started
StopRejected_OnlyAbsent(g) == g.status = "absent"

\* stopGame refuses a missing session and a game that has started
StopRejected(g) == g.status \in {"absent", "playing"}

\* handleLowcardCommand: the bot flag and the role check; a caller who is no
\* admin is refused.  stopGame: redis.get(gameKey) and the refund loop
StopRead(u) ==
  /\ CanSpawn
  /\ botFlag["lowcard"]
  /\ LET g == game["lowcard"] IN
       IF u \in SysAdmins /\ ~StopRejected(g)
       THEN /\ credits' = Refunded(credits, StopRefundees(g), g.entryAmount)
            /\ Spawn([kind |-> "stop", v |-> "lowcard", pc |-> "del"])
       ELSE UNCHANGED <<tasks, credits>>
  /\ UNCHANGED <<actionTimer, deferred, tagged, botFlag, game, lock, joinTimer, nextId, expired, env>>

\* stopGame: redis.del(gameKey), clearDeck
StopDel(t) ==
  /\ At(t, "stop", "del")
  /\ game' = [game EXCEPT !["lowcard"] = NoGame]
  /\ Goto(t, "clear")
  /\ UNCHANGED <<actionTimer, deferred, tagged, botFlag, lock, credits, joinTimer, nextId, expired, env>>

\* the handler, stopGame having succeeded: clearGameTimers
StopClear(t) ==
  /\ At(t, "stop", "clear")
  /\ joinTimer' = [joinTimer EXCEPT !["lowcard"] = 0]
  /\ actionTimer' = [actionTimer EXCEPT !["lowcard"] = FALSE]
  /\ Finish(t)
  /\ UNCHANGED <<deferred, tagged, botFlag, game, lock, credits, nextId, expired, env>>

(* --------- /bot dice remove, /bot lowcard off, /bot off ---------------- *)
\* removeBotFromRoom: the players refunded
RemoveRefundees(g) == IF g.status = "waiting" THEN Ids(g.players) ELSE <<>>

\* the handlers' role checks
RemoveAllowed(v, u) ==
  IF v = "dice" THEN u \in SysAdmins ELSE u \in SysAdmins \cup RoomAdmins

\* the handler: a caller who is no admin is refused.  The dice handler clears
\* the room's timers here.  removeBotFromRoom: redis.exists(botKey),
\* redis.get(gameKey) and the refund loop
RemoveRead(v, u) ==
  /\ CanSpawn
  /\ LET g == game[v] IN
       IF RemoveAllowed(v, u)
       THEN /\ joinTimer' = IF v = "dice" THEN [joinTimer EXCEPT ![v] = 0]
                            ELSE joinTimer
            /\ actionTimer' = IF v = "dice" THEN [actionTimer EXCEPT ![v] = FALSE]
                              ELSE actionTimer
            /\ IF ~botFlag[v]
               THEN UNCHANGED <<tasks, credits>>
               ELSE /\ credits' = IF RemoveRefundees(g) = <<>> THEN credits
                                  ELSE Refunded(credits, RemoveRefundees(g), g.entryAmount)
                    /\ Spawn([kind |-> "remove", v |-> v, pc |-> "del"])
       ELSE UNCHANGED <<joinTimer, actionTimer, tasks, credits>>
  /\ UNCHANGED <<deferred, tagged, botFlag, game, lock, nextId, expired, env>>

\* removeBotFromRoom: redis.del(botKey)
RemoveDelBot(t) ==
  /\ At(t, "remove", "del")
  /\ botFlag' = [botFlag EXCEPT ![tasks[t].v] = FALSE]
  /\ Goto(t, "delgame")
  /\ UNCHANGED <<actionTimer, deferred, tagged, game, lock, credits, joinTimer, nextId, expired, env>>

\* removeBotFromRoom: redis.del(gameKey) and clearActiveGameType; the card
\* handler goes on to clear the room's timers
RemoveDelGame(t) ==
  /\ At(t, "remove", "delgame")
  /\ game' = [game EXCEPT ![tasks[t].v] = NoGame]
  /\ activeType' = "none"
  /\ IF tasks[t].v = "lowcard" THEN Goto(t, "clear") ELSE Finish(t)
  /\ UNCHANGED <<actionTimer, deferred, tagged, botFlag, lock, credits, joinTimer,
                 nextId, expired, maxInFlight, botAdds, elapsed, chat>>

\* handleLowcardCommand, removeBotFromRoom having succeeded: clearGameTimers
RemoveClear(t) ==
  /\ At(t, "remove", "clear")
  /\ joinTimer' = [joinTimer EXCEPT ![tasks[t].v] = 0]
  /\ actionTimer' = [actionTimer EXCEPT ![tasks[t].v] = FALSE]
  /\ Finish(t)
  /\ UNCHANGED <<deferred, tagged, botFlag, game, lock, credits, nextId, expired, env>>

(* ------------------------- /bot <type> add ----------------------------- *)
\* the handler's role check, then addBotToRoom: refused while a bot of either
\* type is in the room
AddBot(v, u) ==
  /\ u \in SysAdmins
  /\ botAdds < MaxBotAdds
  /\ \A w \in Variants : ~botFlag[w]
  /\ botFlag' = [botFlag EXCEPT ![v] = TRUE]
  /\ activeType' = v
  /\ botAdds' = botAdds + 1
  /\ UNCHANGED <<actionTimer, deferred, tagged, game, lock, credits, joinTimer,
                 tasks, nextId, expired, maxInFlight, elapsed, chat>>

(* ----------------------- rounds (dice variant) ------------------------- *)
\* rollDice: the two dice, of the 36 results the lowest, one in between and
\* the double six
Rolls == {<<1, 1>>, <<6, 5>>, <<6, 6>>}

Total(d) == d[1] + d[2]

isDoubleSix(d) == d[1] = 6 /\ d[2] = 6

\* the positions of the players still in the game
ActiveIdx(g) == {i \in 1..Len(g.players) : ~g.players[i].isEliminated}

\* startNextRound: the player entry for the new round
NextRoundPlayer(p) ==
  IF p.isEliminated THEN p
  ELSE [p EXCEPT !.hasImmunity = IF p.earnedImmunity THEN TRUE ELSE @,
                 !.earnedImmunity = FALSE,
                 !.hasRolled = FALSE, !.die1 = 0, !.die2 = 0, !.total = 0,
                 !.isIn = "null"]

\* startNextRound: the document it writes, the bot having rolled b
NextRound(g, b) ==
  [g EXCEPT !.currentRound = @ + 1, !.botTarget = Total(b),
            !.players = [i \in 1..Len(g.players) |-> NextRoundPlayer(g.players[i])]]

\* rollPlayerDice / autoRollForTimeout: the player entry after the roll d
PlayerRolled(p, target, d) ==
  [p EXCEPT !.hasRolled = TRUE, !.die1 = d[1], !.die2 = d[2], !.total = Total(d),
            !.earnedImmunity = IF isDoubleSix(d) THEN TRUE ELSE @,
            !.isIn = IF Total(d) >= target \/ p.hasImmunity THEN "true" ELSE "false"]

\* rollPlayerDice: the position of the caller among the players still in
RollerIdx(g, u) == {i \in ActiveIdx(g) : g.players[i].userId = u}

\* rollPlayerDice refuses the roll
RollRejected(g, u) ==
  \/ g.status # "playing"
  \/ g.botTarget = 0
  \/ RollerIdx(g, u) = {}
  \/ \A i \in RollerIdx(g, u) : g.players[i].hasRolled

\* rollPlayerDice: activePlayers.every(p => p.hasRolled)
AllRolled(g) == \A i \in ActiveIdx(g) : g.players[i].hasRolled

\* rollPlayerDice: the document it writes
Rolled(g, u, d) ==
  LET i == CHOOSE j \in RollerIdx(g, u) : TRUE
  IN [g EXCEPT !.players[i] = PlayerRolled(g.players[i], g.botTarget, d)]

\* autoRollForTimeout: the document it writes, f[i] being the roll made for
\* the player at position i
AutoRolled(g, f) ==
  [g EXCEPT !.players = [i \in 1..Len(g.players) |->
     IF ~g.players[i].isEliminated /\ ~g.players[i].hasRolled
     THEN PlayerRolled(g.players[i], g.botTarget, f[i])
     ELSE g.players[i]]]

\* the rolls autoRollForTimeout makes: one for each player who is still in
\* and has not rolled
AutoRolls(g) ==
  {f \in [1..Len(g.players) -> Rolls] :
     \A i \in 1..Len(g.players) :
       (g.players[i].isEliminated \/ g.players[i].hasRolled) => f[i] = <<1, 1>>}

\* the countdown runs out: startNextRoundFlow, startNextRound's redis.get and
\* the bot's roll
CountdownFire(v) ==
  /\ v = "dice"
  /\ CanSpawn
  /\ countdown[v] > 0
  /\ countdown' = [countdown EXCEPT ![v] = @ - 1]
  /\ LET g == game[v] IN
       IF g.status # "playing"
       THEN UNCHANGED tasks
       ELSE /\ g.currentRound < MaxRounds
            /\ \E b \in Rolls :
                 Spawn([kind |-> "next", v |-> v, pc |-> "write", g |-> NextRound(g, b)])
  /\ UNCHANGED <<botFlag, game, lock, credits, tagged, joinTimer, actionTimer,
                 roundEnd, cleanup, nextId, expired, env>>

\* startNextRound: redis.set; startNextRoundFlow: startRollTimer
NextWrite(t) ==
  /\ At(t, "next", "write")
  /\ game' = [game EXCEPT ![tasks[t].v] = tasks[t].g]
  /\ actionTimer' = [actionTimer EXCEPT ![tasks[t].v] = TRUE]
  /\ Finish(t)
  /\ UNCHANGED <<botFlag, lock, credits, tagged, joinTimer, deferred, nextId,
                 expired, env>>

\* !r: the handler has read the bot flag; rollPlayerDice: redis.get, the
\* checks and the roll.  A refused roll is reported to the caller.
RollRead(u) ==
  /\ CanSpawn
  /\ botFlag["dice"]
  /\ LET g == game["dice"] IN
       IF RollRejected(g, u)
       THEN UNCHANGED tasks
       ELSE \E d \in Rolls :
              Spawn([kind |-> "roll", v |-> "dice", user |-> u, pc |-> "write",
                     g |-> Rolled(g, u, d)])
  /\ UNCHANGED <<botFlag, game, lock, credits, tagged, joinTimer, actionTimer,
                 deferred, nextId, expired, env>>

\* rollPlayerDice: redis.set; the handler, all players having rolled: the roll
\* timer is cleared and processRoundEnd is set to run in 500 ms
RollWrite(t) ==
  /\ At(t, "roll", "write")
  /\ game' = [game EXCEPT !["dice"] = tasks[t].g]
  /\ IF AllRolled(tasks[t].g)
     THEN /\ actionTimer' = [actionTimer EXCEPT !["dice"] = FALSE]
          /\ roundEnd' = [roundEnd EXCEPT !["dice"] = @ + 1]
     ELSE UNCHANGED <<actionTimer, roundEnd>>
  /\ Finish(t)
  /\ UNCHANGED <<botFlag, lock, credits, tagged, joinTimer, countdown, cleanup,
                 nextId, expired, env>>

\* processRoundEnd begins: autoRollForTimeout's redis.get and its rolls.  With
\* no session or no bot target there is nothing to write and the tally is next
AutoRead(v) ==
  LET g == game[v] IN
    IF g.status = "absent" \/ g.botTarget = 0
    THEN Spawn([kind |-> "end", v |-> v, pc |-> "tally"])
    ELSE \E f \in AutoRolls(g) :
           Spawn([kind |-> "end", v |-> v, pc |-> "write", g |-> AutoRolled(g, f)])

\* the roll timer runs out: activeTimers.delete(rollKey), processRoundEnd.  A
\* roll timer that is running while a processRoundEnd set by the last !r is
\* pending was armed after it for 20 seconds, the other for 500 ms: it runs
\* second.
RollTimerFire ==
  /\ CanSpawn
  /\ actionTimer["dice"]
  /\ roundEnd["dice"] = 0
  /\ actionTimer' = [actionTimer EXCEPT !["dice"] = FALSE]
  /\ AutoRead("dice")
  /\ UNCHANGED <<botFlag, game, lock, credits, tagged, joinTimer, deferred,
                 nextId, expired, env>>

\* the 500 ms after the last roll run out: processRoundEnd
RoundEndFire ==
  /\ CanSpawn
  /\ roundEnd["dice"] > 0
  /\ roundEnd' = [roundEnd EXCEPT !["dice"] = @ - 1]
  /\ AutoRead("dice")
  /\ UNCHANGED <<botFlag, game, lock, credits, tagged, joinTimer, actionTimer,
                 countdown, cleanup, nextId, expired, env>>

\* autoRollForTimeout: redis.set; processRoundEnd then waits 1.5 s
AutoWrite(t) ==
  /\ At(t, "end", "write")
  /\ game' = [game EXCEPT ![tasks[t].v] = tasks[t].g]
  /\ tasks' = [tasks EXCEPT ![t] = [kind |-> "end", v |-> tasks[t].v, pc |-> "tally"]]
  /\ UNCHANGED <<botFlag, lock, credits, tagged, joinTimer, actionTimer,
                 deferred, nextId, expired, env>>

\* tallyRound: the players marked in, and the players marked out
InIdx(g) == {i \in ActiveIdx(g) : g.players[i].isIn = "true"}

OutIdx(g) == {i \in ActiveIdx(g) : g.players[i].isIn = "false"}

\* tallyRound: what it returns
TallyOutcome(g) ==
  IF InIdx(g) = {} THEN "allFailed"
  ELSE IF Cardinality(ActiveIdx(g) \ OutIdx(g)) = 1 THEN "gameOver"
  ELSE "roundComplete"

\* tallyRound that leaves the immunity a player holds in place
TallyPlayer_KeepImmunity(g, i) ==
  LET p == g.players[i] IN
    IF p.isEliminated THEN p
    ELSE IF InIdx(g) = {}
    THEN [p EXCEPT !.hasRolled = FALSE, !.die1 = 0, !.die2 = 0,
                   !.total = 0, !.isIn = "null"]
    ELSE [p EXCEPT !.isEliminated = (p.isIn = "false")]

\* tallyRound without the void round: the players who are out are eliminated
\* even when nobody is in
TallyPlayer_NoVoidRound(g, i) ==
  LET p == g.players[i] IN
    IF p.isEliminated THEN p
    ELSE [p EXCEPT !.hasImmunity = FALSE, !.isEliminated = (p.isIn = "false")]

\* tallyRound: the player entry it writes
TallyPlayer(g, i) ==
  LET p == g.players[i] IN
    IF p.isEliminated THEN p
    ELSE IF InIdx(g) = {}
    THEN [p EXCEPT !.hasImmunity = FALSE, !.hasRolled = FALSE, !.die1 = 0,
                   !.die2 = 0, !.total = 0, !.isIn = "null"]
    ELSE [p EXCEPT !.hasImmunity = FALSE, !.isEliminated = (p.isIn = "false")]

\* tallyRound: the document it writes
Tallied(g) ==
  [g EXCEPT !.players = [i \in 1..Len(g.players) |-> TallyPlayer(g, i)],
            !.botTarget = IF TallyOutcome(g) = "gameOver" THEN @ ELSE 0]

\* finalizeGame with the fee taken as a tenth of the pot rounded up
HouseFee_RoundedUp(pot) == (pot * HOUSE_FEE_PERCENT + 99) \div 100

\* finalizeGame: Math.floor(game.pot * HOUSE_FEE_PERCENT / 100)
HouseFee(pot) == (pot * HOUSE_FEE_PERCENT) \div 100

\* finalizeGame: game.pot - houseFee
Winnings(pot) == pot - HouseFee(pot)

\* finalizeGame: game.players.find(p => !p.isEliminated)
Winner(g) == g.players[CHOOSE i \in ActiveIdx(g) : \A j \in ActiveIdx(g) : i <= j].userId

\* finalizeGame: the document it writes
Finalized(g) ==
  [k \in DOMAIN g \cup {"winnerId", "winnings", "houseFee"} |->
     CASE k = "status" -> "finished"
       [] k = "winnerId" -> Winner(g)
       [] k = "winnings" -> Winnings(g.pot)
       [] k = "houseFee" -> HouseFee(g.pot)
       [] OTHER -> g[k]]

\* processRoundEnd, the 1.5 s over: tallyRound's redis.get; it does nothing
\* unless the session exists and is playing
TallyRead(t) ==
  /\ At(t, "end", "tally")
  /\ LET g == game[tasks[t].v] IN
       IF g.status # "playing"
       THEN Finish(t)
       ELSE tasks' = [tasks EXCEPT ![t] =
              [kind |-> "end", v |-> tasks[t].v, pc |-> "tallywrite",
               g |-> Tallied(g), outcome |-> TallyOutcome(g)]]
  /\ UNCHANGED <<botFlag, game, lock, credits, tagged, joinTimer, actionTimer,
                 deferred, nextId, expired, env>>

\* tallyRound: redis.set.  With one player left finalizeGame is next;
\* otherwise processRoundEnd sets the countdown to the next round
TallyWrite(t) ==
  /\ At(t, "end", "tallywrite")
  /\ game' = [game EXCEPT ![tasks[t].v] = tasks[t].g]
  /\ IF tasks[t].outcome = "gameOver"
     THEN /\ tasks' = [tasks EXCEPT ![t] =
                 [kind |-> "end", v |-> tasks[t].v, pc |-> "finalize"]]
          /\ UNCHANGED countdown
     ELSE /\ countdown' = [countdown EXCEPT ![tasks[t].v] = @ + 1]
          /\ Finish(t)
  /\ UNCHANGED <<botFlag, lock, credits, tagged, joinTimer, actionTimer,
                 roundEnd, cleanup, nextId, expired, env>>

\* finalizeGame: redis.get; with no player left the session is deleted;
\* otherwise addCredits(winner.userId, winnings)
FinalizeRead(t) ==
  /\ At(t, "end", "finalize")
  /\ LET g == game[tasks[t].v] IN
       IF g.status = "absent"
       THEN /\ Finish(t)
            /\ UNCHANGED <<game, credits>>
       ELSE IF ActiveIdx(g) = {}
       THEN /\ game' = [game EXCEPT ![tasks[t].v] = NoGame]
            /\ Finish(t)
            /\ UNCHANGED credits
       ELSE /\ credits' = Added(credits, Winner(g), Winnings(g.pot))
            /\ tasks' = [tasks EXCEPT ![t] =
                 [kind |-> "end", v |-> tasks[t].v, pc |-> "finalwrite",
                  g |-> Finalized(g)]]
            /\ UNCHANGED game
  /\ UNCHANGED <<botFlag, lock, tagged, joinTimer, actionTimer, deferred,
                 nextId, expired, env>>

\* finalizeGame: redis.set with status 'finished', the deletion set to run
\* in 60 s; processRoundEnd: clearGameTimers
FinalizeWrite(t) ==
  /\ At(t, "end", "finalwrite")
  /\ game' = [game EXCEPT ![tasks[t].v] = tasks[t].g]
  /\ cleanup' = [cleanup EXCEPT ![tasks[t].v] = @ + 1]
  /\ joinTimer' = [joinTimer EXCEPT ![tasks[t].v] = 0]
  /\ actionTimer' = [actionTimer EXCEPT ![tasks[t].v] = FALSE]
  /\ Finish(t)
  /\ UNCHANGED <<botFlag, lock, credits, tagged, countdown, roundEnd, nextId,
                 expired, env>>

\* the 60 s after the end of a game run out: redis.del(gameKey)
CleanupFire ==
  /\ cleanup["dice"] > 0
  /\ cleanup' = [cleanup EXCEPT !["dice"] = @ - 1]
  /\ game' = [game EXCEPT !["dice"] = NoGame]
  /\ UNCHANGED <<botFlag, lock, credits, tagged, joinTimer, actionTimer,
                 countdown, roundEnd, tasks, nextId, expired, env>>

(* ----------------------- rounds (card variant) ------------------------- *)
\* the users at the table of a card game
CardUsers == 1..MaxCardPlayers

\* drawCardFromDeck: the rank of the card popped off the shuffled deck.  The
\* deck holds every rank four times and is generated anew when it runs out,
\* so the players of one round may all draw the same rank.
CardValues == 1..MaxCard

MaxOf(S) == CHOOSE x \in S : \A y \in S : y <= x

MinOf(S) == CHOOSE x \in S : \A y \in S : x <= y

\* findIndex(p => p.userId == id): the first entry of the user, if any
FirstIdx(g, u) ==
  LET S == {i \in 1..Len(g.players) : g.players[i].userId = u}
  IN  IF S = {} THEN {} ELSE {MinOf(S)}

\* drawCardForPlayer: findIndex(p => p.userId == userId && !p.isEliminated)
DrawerIdx(g, u) ==
  LET S == {i \in ActiveIdx(g) : g.players[i].userId = u}
  IN  IF S = {} THEN {} ELSE {MinOf(S)}

\* drawCardForPlayer: the checks that let the caller draw
DrawAccepted(g, u) ==
  /\ g.status = "playing"
  /\ ~(g.countdownEndsAt > elapsed)
  /\ \E i \in DrawerIdx(g, u) : ~g.players[i].hasDrawn

\* drawCardForPlayer / autoDrawForTimeout: the player entry after the draw
PlayerDrew(p, c) == [p EXCEPT !.currentCard = c, !.hasDrawn = TRUE]

\* drawCardForPlayer: the document it writes, player i having drawn c
Drew(g, i, c) == [g EXCEPT !.players[i] = PlayerDrew(@, c)]

\* allPlayersDrawn, on the document it reads
allPlayersDrawn(g) ==
  /\ g.status = "playing"
  /\ ActiveIdx(g) # {}
  /\ \A i \in ActiveIdx(g) : g.players[i].hasDrawn

\* autoDrawForTimeout: the players it draws for
UndrawnIdx(g) == {i \in ActiveIdx(g) : ~g.players[i].hasDrawn}

\* autoDrawForTimeout: the document it writes, f being the cards drawn
AutoDrew(g, f) ==
  [g EXCEPT !.players = [i \in 1..Len(g.players) |->
     IF i \in UndrawnIdx(g) THEN PlayerDrew(g.players[i], f[i])
     ELSE g.players[i]]]

\* tallyRound: activePlayers, the players still in who hold a card
HolderIdx(g) == {i \in ActiveIdx(g) : g.players[i].currentCard # 0}

\* tallyRound: winners, the holders of the highest card
HighestIdx(g) ==
  {i \in HolderIdx(g) : g.players[i].currentCard
     = MaxOf({g.players[j].currentCard : j \in HolderIdx(g)})}

\* tallyRound: losers, the holders of the lowest card
LoserIdx(g) ==
  {i \in HolderIdx(g) : g.players[i].currentCard
     = MinOf({g.players[j].currentCard : j \in HolderIdx(g)})}

\* tallyRound with the three-player rule applied to timed-out rounds as well
HighestWins_AlsoTimedOut(g, isTimedOut) ==
  /\ Cardinality(HolderIdx(g)) = 3
  /\ Cardinality(HighestIdx(g)) = 1

\* tallyRound: the three-player rule applies and names one winner
HighestWins(g, isTimedOut) ==
  /\ Cardinality(HolderIdx(g)) = 3
  /\ ~isTimedOut
  /\ Cardinality(HighestIdx(g)) = 1

\* tallyRound: losers.length > 1 && losers.length < activePlayers.length
PartialTie(g) ==
  /\ Cardinality(LoserIdx(g)) > 1
  /\ Cardinality(LoserIdx(g)) < Cardinality(HolderIdx(g))

\* tallyRound: the entries at idx marked eliminated, previousTiedLosers deleted
Eliminated(g, idx) ==
  [g EXCEPT !.previousTiedLosers = {},
            !.players = [i \in 1..Len(g.players) |->
               IF i \in idx THEN [g.players[i] EXCEPT !.isEliminated = TRUE]
               ELSE g.players[i]]]

\* tallyRound: the entries the tie-breaker timeout eliminates
PreviousLoserIdx(g) == UNION {FirstIdx(g, u) : u \in g.previousTiedLosers}

\* tallyRound: the entries the lowest card eliminates
LoserEntryIdx(g) == UNION {FirstIdx(g, g.players[i].userId) : i \in LoserIdx(g)}

\* tallyRound: the next round, the players still in without a card
NextCardRound(g) ==
  [g EXCEPT !.currentRound = @ + 1,
            !.countdownEndsAt = g.currentRound + 1,
            !.players = [i \in 1..Len(g.players) |->
               IF g.players[i].isEliminated THEN g.players[i]
               ELSE [g.players[i] EXCEPT !.hasDrawn = FALSE, !.currentCard = 0]]]

\* tallyRound resetting every player still in on a tie
TieReset_Everyone(g) ==
  [g EXCEPT !.previousTiedLosers = {g.players[i].userId : i \in LoserIdx(g)},
            !.players = [i \in 1..Len(g.players) |->
               IF ~g.players[i].isEliminated
               THEN [g.players[i] EXCEPT !.hasDrawn = FALSE, !.currentCard = 0]
               ELSE g.players[i]]]

\* tallyRound: the tie, the tied players without a card and the others as
\* they are
TieReset(g) ==
  [g EXCEPT !.previousTiedLosers = {g.players[i].userId : i \in LoserIdx(g)},
            !.players = [i \in 1..Len(g.players) |->
               IF /\ ~g.players[i].isEliminated
                  /\ \E l \in LoserIdx(g) : g.players[l].userId = g.players[i].userId
               THEN [g.players[i] EXCEPT !.hasDrawn = FALSE, !.currentCard = 0]
               ELSE g.players[i]]]

\* tallyRound: which of its returns it reaches
CardOutcome(g, isTimedOut) ==
  IF HolderIdx(g) = {} THEN "error"
  ELSE IF HighestWins(g, isTimedOut) THEN "highest"
  ELSE IF PartialTie(g)
  THEN IF isTimedOut /\ g.previousTiedLosers # {}
       THEN IF Cardinality(ActiveIdx(Eliminated(g, PreviousLoserIdx(g)))) = 1
            THEN "tiebreak" ELSE "tiebreakNext"
       ELSE "tie"
  ELSE IF Cardinality(ActiveIdx(Eliminated(g, LoserEntryIdx(g)))) = 1
  THEN "last" ELSE "eliminated"

\* tallyRound: the outcomes that pay a winner
WinnerOutcomes == {"highest", "tiebreak", "last"}

\* tallyRound: winner.userId
CardWinner(g, isTimedOut) ==
  LET o == CardOutcome(g, isTimedOut)
      h == IF o = "tiebreak" THEN Eliminated(g, PreviousLoserIdx(g))
           ELSE Eliminated(g, LoserEntryIdx(g))
  IN  IF o = "highest" THEN g.players[MinOf(HighestIdx(g))].userId
      ELSE h.players[MinOf(ActiveIdx(h))].userId

\* tallyRound: the document it writes when the game goes on
CardTallied(g, isTimedOut) ==
  LET o == CardOutcome(g, isTimedOut)
  IN  IF o = "tie" THEN TieReset(g)
      ELSE IF o = "tiebreakNext"
      THEN NextCardRound(Eliminated(g, PreviousLoserIdx(g)))
      ELSE NextCardRound(Eliminated(g, LoserEntryIdx(g)))

\* tallyRound: commission = Math.floor(game.pot * 0.05); the product of an
\* integer and the double 0.05 is never below the twentieth of the integer
Commission(pot) == pot \div 20

\* tallyRound: winnings = game.pot - commission
CardWinnings(pot) == pot - Commission(pot)

\* Date.now() passes the countdownEndsAt of the stored session
Elapse ==
  /\ game["lowcard"].status = "playing"
  /\ elapsed < game["lowcard"].countdownEndsAt
  /\ elapsed' = game["lowcard"].countdownEndsAt
  /\ UNCHANGED <<botFlag, game, lock, credits, tagged, joinTimer, actionTimer,
                 deferred, tasks, nextId, expired, maxInFlight, botAdds,
                 chat, activeType>>

\* processRoundEnd, the countdown it set after a tie or an elimination:
\* getActiveGame, and startDrawTimer if the session is playing
CardCountdownFire ==
  /\ CanSpawn
  /\ countdown["lowcard"] > 0
  /\ countdown' = [countdown EXCEPT !["lowcard"] = @ - 1]
  /\ actionTimer' = [actionTimer EXCEPT !["lowcard"] =
                       IF game["lowcard"].status = "playing" THEN TRUE ELSE @]
  /\ UNCHANGED <<botFlag, game, lock, credits, tagged, joinTimer, roundEnd,
                 cleanup, tasks, nextId, expired, env>>

\* !d: the handler has read the bot flag; drawCardForPlayer: redis.get, the
\* checks and the card off the deck.  A
\* refused draw changes nothing.
DrawRead(u) ==
  /\ CanSpawn
  /\ botFlag["lowcard"]
  /\ DrawAccepted(game["lowcard"], u)
  /\ \E i \in DrawerIdx(game["lowcard"], u), c \in CardValues :
       Spawn([kind |-> "draw", v |-> "lowcard", pc |-> "write",
              g |-> Drew(game["lowcard"], i, c)])
  /\ UNCHANGED <<botFlag, game, lock, credits, tagged, joinTimer, actionTimer,
                 deferred, nextId, expired, env>>

\* drawCardForPlayer: redis.set
DrawWrite(t) ==
  /\ At(t, "draw", "write")
  /\ game' = [game EXCEPT !["lowcard"] = tasks[t].g]
  /\ tasks' = [tasks EXCEPT ![t] =
       [kind |-> "draw", v |-> "lowcard", pc |-> "check"]]
  /\ UNCHANGED <<botFlag, lock, credits, tagged, joinTimer, actionTimer,
                 deferred, nextId, expired, env>>

\* !d: allPlayersDrawn: redis.get; everyone having drawn, the draw timer is
\* cleared and processRoundEnd(io, roomId, false) is set to run
DrawCheck(t) ==
  /\ At(t, "draw", "check")
  /\ IF allPlayersDrawn(game["lowcard"])
     THEN /\ actionTimer' = [actionTimer EXCEPT !["lowcard"] = FALSE]
          /\ roundEnd' = [roundEnd EXCEPT !["lowcard"] = @ + 1]
     ELSE UNCHANGED <<actionTimer, roundEnd>>
  /\ Finish(t)
  /\ UNCHANGED <<botFlag, game, lock, credits, tagged, joinTimer, countdown,
                 cleanup, nextId, expired, env>>

\* the draw timer runs: processRoundEnd(io, roomId) with isTimedOut = true;
\* autoDrawForTimeout: redis.get and the cards off the deck.  A draw timer
\* that is running while a processRoundEnd set by the last !d is pending was
\* armed after it for 20 seconds, the other for 300 ms: it runs second.
DrawTimerFire ==
  /\ CanSpawn
  /\ actionTimer["lowcard"]
  /\ roundEnd["lowcard"] = 0
  /\ actionTimer' = [actionTimer EXCEPT !["lowcard"] = FALSE]
  /\ LET g == game["lowcard"] IN
       IF g.status = "absent"
       THEN Spawn([kind |-> "cardend", v |-> "lowcard", pc |-> "tally",
                   isTimedOut |-> TRUE])
       ELSE \E f \in [UndrawnIdx(g) -> CardValues] :
              Spawn([kind |-> "cardend", v |-> "lowcard", pc |-> "autowrite",
                     isTimedOut |-> TRUE, g |-> AutoDrew(g, f)])
  /\ UNCHANGED <<botFlag, game, lock, credits, tagged, joinTimer, deferred,
                 nextId, expired, env>>

\* autoDrawForTimeout: redis.set
CardAutoWrite(t) ==
  /\ At(t, "cardend", "autowrite")
  /\ game' = [game EXCEPT !["lowcard"] = tasks[t].g]
  /\ tasks' = [tasks EXCEPT ![t] =
       [kind |-> "cardend", v |-> "lowcard", pc |-> "tally",
        isTimedOut |-> TRUE]]
  /\ UNCHANGED <<botFlag, lock, credits, tagged, joinTimer, actionTimer,
                 deferred, nextId, expired, env>>

\* the processRoundEnd(io, roomId, false) that the last !d set runs
CardRoundEndFire ==
  /\ CanSpawn
  /\ roundEnd["lowcard"] > 0
  /\ roundEnd' = [roundEnd EXCEPT !["lowcard"] = @ - 1]
  /\ Spawn([kind |-> "cardend", v |-> "lowcard", pc |-> "tally",
            isTimedOut |-> FALSE])
  /\ UNCHANGED <<botFlag, game, lock, credits, tagged, joinTimer, actionTimer,
                 countdown, cleanup, nextId, expired, env>>

\* tallyRound: redis.get and the tally; with a winner, addCredits(winner.userId,
\* winnings)
CardTallyRead(t) ==
  /\ At(t, "cardend", "tally")
  /\ LET g == game["lowcard"]
         isTimedOut == tasks[t].isTimedOut
     IN  IF g.status = "absent"
         THEN Finish(t) /\ UNCHANGED credits
         ELSE IF CardOutcome(g, isTimedOut) = "error"
         THEN Finish(t) /\ UNCHANGED credits
         ELSE IF CardOutcome(g, isTimedOut) \in WinnerOutcomes
         THEN /\ credits' = Added(credits, CardWinner(g, isTimedOut),
                                  CardWinnings(g.pot))
              /\ tasks' = [tasks EXCEPT ![t] =
                   [kind |-> "cardend", v |-> "lowcard", pc |-> "del",
                    outcome |-> CardOutcome(g, isTimedOut)]]
         ELSE /\ tasks' = [tasks EXCEPT ![t] =
                   [kind |-> "cardend", v |-> "lowcard", pc |-> "tallywrite",
                    g |-> CardTallied(g, isTimedOut)]]
              /\ UNCHANGED credits
  /\ UNCHANGED <<botFlag, game, lock, tagged, joinTimer, actionTimer, deferred,
                 nextId, expired, env>>

\* tallyRound: redis.del and clearDeck; processRoundEnd: clearGameTimers
CardTallyDel(t) ==
  /\ At(t, "cardend", "del")
  /\ game' = [game EXCEPT !["lowcard"] = NoGame]
  /\ joinTimer' = [joinTimer EXCEPT !["lowcard"] = 0]
  /\ actionTimer' = [actionTimer EXCEPT !["lowcard"] = FALSE]
  /\ Finish(t)
  /\ UNCHANGED <<botFlag, lock, credits, tagged, deferred, nextId, expired, env>>

\* tallyRound: redis.set; processRoundEnd: the countdown to the next draw
CardTallyWrite(t) ==
  /\ At(t, "cardend", "tallywrite")
  /\ countdown["lowcard"] < MaxPending
  /\ game' = [game EXCEPT !["lowcard"] = tasks[t].g]
  /\ countdown' = [countdown EXCEPT !["lowcard"] = @ + 1]
  /\ Finish(t)
  /\ UNCHANGED <<botFlag, lock, credits, tagged, joinTimer, actionTimer,
                 roundEnd, cleanup, nextId, expired, env>>

\* the handlers' role check on /bot <type> add, then addBotToRoom: the three
\* redis.exists; the handlers of two adds overlap at the awaits that follow
AddRead(v, u) ==
  /\ CanSpawn
  /\ IF u \in SysAdmins /\ \A w \in Variants : ~botFlag[w]
     THEN Spawn([kind |-> "add", v |-> v, pc |-> "write"])
     ELSE UNCHANGED tasks
  /\ UNCHANGED <<actionTimer, deferred, tagged, botFlag, game, lock, credits,
                 joinTimer, nextId, expired, env>>

\* addBotToRoom: redis.set(botKey) and setActiveGameType
AddWrite(t) ==
  /\ At(t, "add", "write")
  /\ botFlag' = [botFlag EXCEPT ![tasks[t].v] = TRUE]
  /\ activeType' = tasks[t].v
  /\ Finish(t)
  /\ UNCHANGED <<actionTimer, deferred, tagged, game, lock, credits, joinTimer,
                 nextId, expired, maxInFlight, botAdds, elapsed, chat>>

(* ------------------------- message pipeline ---------------------------- *)
\* sendMessage of events/chatEvents.js for the requests that carry all four
\* fields and whose text is plain chat or starts with the sigil "!"; the
\* texts that start with "/" are left out.

\* message: the texts told apart by the code
Texts == {"hello", "!hello", "!d", "!D", "!r", "!roll", "!j", "!J", "!join",
          "!cancel", "!start"}

\* message.toLowerCase().trim() on these texts
Lower(text) ==
  IF text = "!D" THEN "!d" ELSE IF text = "!J" THEN "!j" ELSE text

\* message.startsWith('!')
IsCommand(text) == text # "hello"

\* what the checks of sendMessage find for a message: its length, the flood
\* and rate counters of the sender, the keys of the room and of the sender,
\* and whether the sender is owner, administrator or moderator
Facts == {"tooLong", "flooding", "rateLimited", "roomSilenced", "roomLocked",
          "privileged", "userSilenced", "kicked", "legacySilenced", "banned"}

\* gameStateManager.GAME_TYPES and no active game type
GameTypes == {"none", "dice", "lowcard", "flagbot"}

\* no message is being worked on
NoMessage == [pc |-> "idle"]

NoChat == sending = NoMessage /\ emitted = <<>> /\ handlerCalls = <<>>

\* the marker of a room with the bot flags botFlag, set by the last add
MarkerOf(flags) ==
  IF flags["dice"] THEN "dice" ELSE IF flags["lowcard"] THEN "lowcard" ELSE "none"

\* the state of the room's games
engine == <<botFlag, game, lock, credits, tagged, joinTimer, actionTimer,
            countdown, roundEnd, cleanup, tasks, nextId, expired, maxInFlight,
            botAdds, elapsed, activeType>>

\* socket.emit(event, ..) to the sender, written by the check `about`
ToSender(event, about) == [to |-> "sender", event |-> event, about |-> about]

\* socket.on('chat:message', sendMessage)
Receive ==
  /\ sending = NoMessage
  /\ \E text \in Texts, facts \in SUBSET Facts :
       sending' = [pc |-> "size", text |-> text, facts |-> facts,
                   checked |-> <<>>, gameType |-> "none", route |-> <<>>]
  /\ emitted' = <<>>
  /\ handlerCalls' = <<>>
  /\ UNCHANGED engine

\* a check refuses the message: its emits, return
Refused(check, events) ==
  /\ sending' = [sending EXCEPT !.pc = "done", !.checked = Append(@, check)]
  /\ emitted' = emitted \o events
  /\ UNCHANGED <<handlerCalls, engine>>

\* a check lets the message through to the next one
Passed(check, next) ==
  /\ sending' = [sending EXCEPT !.pc = next, !.checked = Append(@, check)]
  /\ UNCHANGED <<emitted, handlerCalls, engine>>

\* message.length > 1000
CheckSize ==
  /\ sending.pc = "size"
  /\ IF "tooLong" \in sending.facts
     THEN Refused("size", <<ToSender("error", "size")>>)
     ELSE Passed("size", "flood")

\* checkFlood(username)
CheckFlood ==
  /\ sending.pc = "flood"
  /\ IF "flooding" \in sending.facts
     THEN Refused("flood", <<ToSender("system:message", "flood")>>)
     ELSE Passed("flood", "rate")

\* checkGlobalRateLimit(userId)
CheckRate ==
  /\ sending.pc = "rate"
  /\ IF "rateLimited" \in sending.facts
     THEN Refused("rate", <<ToSender("system:message", "rate")>>)
     ELSE Passed("rate", "roomSilence")

\* redis.exists(room:silence:<room>); owner, administrator and moderator pass
CheckRoomSilence ==
  /\ sending.pc = "roomSilence"
  /\ IF "roomSilenced" \in sending.facts /\ "privileged" \notin sending.facts
     THEN Refused("roomSilence", <<ToSender("system:message", "roomSilence")>>)
     ELSE Passed("roomSilence", "roomLock")

\* roomInfo.is_locked; owner, administrator and moderator pass
CheckRoomLock ==
  /\ sending.pc = "roomLock"
  /\ IF "roomLocked" \in sending.facts /\ "privileged" \notin sending.facts
     THEN Refused("roomLock", <<ToSender("system:message", "roomLock")>>)
     ELSE Passed("roomLock", "userSilence")

\* redis.exists(user:silence:<room>:<user>)
CheckUserSilence ==
  /\ sending.pc = "userSilence"
  /\ IF "userSilenced" \in sending.facts
     THEN Refused("userSilence", <<ToSender("system:message", "userSilence")>>)
     ELSE Passed("userSilence", "kick")

\* the kicked sender emits the notice, leaves the room, and the check goes on
CheckKick_NoReturn ==
  /\ sending.pc = "kick"
  /\ sending' = [sending EXCEPT !.pc = "legacySilence",
                                !.checked = Append(@, "kick")]
  /\ emitted' = IF "kicked" \in sending.facts
                THEN emitted \o <<ToSender("system:message", "kick"),
                                  ToSender("room:kicked", "kick")>>
                ELSE emitted
  /\ UNCHANGED <<handlerCalls, engine>>

\* redis.exists(kick:<room>:<user>): the notice, socket.leave, room:kicked
CheckKick ==
  /\ sending.pc = "kick"
  /\ IF "kicked" \in sending.facts
     THEN Refused("kick", <<ToSender("system:message", "kick"),
                            ToSender("room:kicked", "kick")>>)
     ELSE Passed("kick", "legacySilence")

\* redis.exists(silence:<room>:<user>)
CheckLegacySilence ==
  /\ sending.pc = "legacySilence"
  /\ IF "legacySilenced" \in sending.facts
     THEN Refused("legacySilence",
                  <<ToSender("system:message", "legacySilence")>>)
     ELSE Passed("legacySilence", "ban")

\* roomService.isUserBanned: the notice, socket.leave, room:banned
CheckBan ==
  /\ sending.pc = "ban"
  /\ IF "banned" \in sending.facts
     THEN Refused("ban", <<ToSender("system:message", "ban"),
                           ToSender("room:banned", "ban")>>)
     ELSE Passed("ban", "dispatch")

\* !start, !j, !join, !cancel
IsShared(l) == l \in {"!start", "!j", "!join", "!cancel"}

\* the action verb of another game type goes on to the handlers
Ignored_FallsThrough(l, activeGameType) == FALSE

\* the action verb of a game type that is not the active one: return
Ignored(l, activeGameType) ==
  \/ l = "!d" /\ activeGameType # "lowcard"
  \/ l \in {"!r", "!roll"} /\ activeGameType # "dice"

\* the handlers sendMessage calls for the lowered text l, in order, as long
\* as none of them returns true; Fallback: the handlers tried for a command
\* no branch has returned on
Route(l, activeGameType) ==
  LET Fallback == <<"dice", "lowcard", "legend">> IN
    IF l = "!d" THEN <<"lowcard">> \o Fallback
    ELSE IF l \in {"!r", "!roll"} THEN <<"dice">> \o Fallback
    ELSE IF IsShared(l)
    THEN (IF activeGameType = "dice" THEN <<"dice">>
          ELSE IF activeGameType = "lowcard" THEN <<"lowcard">>
          ELSE <<"dice", "lowcard">>) \o Fallback
    ELSE Fallback

\* the text is plain chat, or gameStateManager.getActiveGameType(roomId) and
\* the branch the lowered text takes
Dispatch ==
  /\ sending.pc = "dispatch"
  /\ IF ~IsCommand(sending.text)
     THEN sending' = [sending EXCEPT !.pc = "chat"]
     ELSE \E a \in GameTypes :
            sending' = [sending EXCEPT
              !.gameType = a,
              !.route = Route(Lower(sending.text), a),
              !.pc = IF Ignored(Lower(sending.text), a) THEN "done"
                     ELSE "handlers"]
  /\ UNCHANGED <<emitted, handlerCalls, engine>>

\* handleDicebotCommand / handleLowcardCommand return true: the bot is in the
\* room and the text is one of the handler's commands
Handles(h, text) ==
  IF h = "dice"
  THEN /\ botFlag["dice"]
       /\ Lower(text) \in {"!start", "!j", "!join", "!r", "!roll", "!cancel"}
  ELSE /\ botFlag["lowcard"]
       /\ text \in {"!start", "!j", "!d"}

\* what handleLegendCommand can return: it declines what is not a command
\* of its variant, and a shared command it takes or declines
LegendResults(text) ==
  IF IsShared(Lower(text)) THEN BOOLEAN ELSE {FALSE}

\* the next handler of the route is called
CallHandler ==
  /\ sending.pc = "handlers"
  /\ LET h == Head(sending.route) IN
       \E r \in IF h = "legend" THEN LegendResults(sending.text)
                ELSE {Handles(h, sending.text)} :
         /\ handlerCalls' = Append(handlerCalls, [handler |-> h, handled |-> r])
         /\ sending' = [sending EXCEPT
              !.route = Tail(@),
              !.pc = IF r THEN "done"
                     ELSE IF Tail(sending.route) = <<>> THEN "chat"
                     ELSE "handlers"]
  /\ UNCHANGED <<emitted, engine>>

\* the message goes to the room as chat, io.to(room).emit, and is
\* acknowledged to the sender
Broadcast ==
  /\ sending.pc = "chat"
  /\ emitted' = emitted \o
       <<[to |-> "room", event |-> "chat:message", about |-> "chat"],
         ToSender("chat:ack", "chat")>>
  /\ sending' = [sending EXCEPT !.pc = "done"]
  /\ UNCHANGED <<handlerCalls, engine>>

\* sendMessage returns
Return ==
  /\ sending # NoMessage
  /\ sending.pc = "done"
  /\ sending' = NoMessage
  /\ emitted' = <<>>
  /\ handlerCalls' = <<>>
  /\ UNCHANGED engine

(* ------------------------- specifications ------------------------------ *)
InitRoom ==
  /\ botFlag = [v \in Variants |-> FALSE]
  /\ game = [v \in Variants |-> NoGame]
  /\ lock = [v \in Variants |-> FALSE]
  /\ credits = [u \in Users |-> InitCredits]
  /\ joinTimer = [v \in Variants |-> 0]
  /\ actionTimer = [v \in Variants |-> FALSE]
  /\ countdown = [v \in Variants |-> 0]
  /\ roundEnd = [v \in Variants |-> 0]
  /\ cleanup = [v \in Variants |-> 0]
  /\ tasks = <<>>
  /\ nextId = 1
  /\ expired = 0
  /\ botAdds = 0
  /\ elapsed = 0
  /\ NoChat
  /\ activeType = MarkerOf(botFlag)

\* no user holds promotional credits
NoTagged == tagged = [u \in Users |-> 0]

\* the handlers of a room overlap at their suspension points
Init == InitRoom /\ NoTagged /\ maxInFlight = MaxTasks

\* the handlers of a room run one at a time, each to its end
InitSerial == InitRoom /\ NoTagged /\ maxInFlight = 1

\* one handler at a time, the users holding promotional credits or none
InitTagged == InitRoom /\ tagged \in [Users -> 0..MaxTagged] /\ maxInFlight = 1

Next ==
  \/ \E v \in Variants, u \in Users : AddBot(v, u)
  \/ \E v \in Variants, u \in Users, args \in StartArgs : StartLock(v, u, args)
  \/ \E t \in TaskIds : StartRead(t)
  \/ \E t \in TaskIds : StartDebit(t)
  \/ \E t \in TaskIds : StartWrite(t)
  \/ \E t \in TaskIds : StartUnlock(t)
  \/ \E t \in TaskIds : StartArm(t)
  \/ \E v \in Variants : LockExpire(v)
  \/ \E v \in Variants, u \in Users : JoinRead(v, u)
  \/ \E t \in TaskIds : JoinDebit(t)
  \/ \E t \in TaskIds : JoinWrite(t)
  \/ \E t \in TaskIds : JoinWriteFail(t)
  \/ \E v \in Variants : BeginRead(v)
  \/ \E t \in TaskIds : BeginDel(t)
  \/ \E t \in TaskIds : BeginWrite(t)
  \/ \E u \in Users : CancelRead(u)
  \/ \E t \in TaskIds : CancelDel(t)
  \/ \E u \in Users : StopRead(u)
  \/ \E t \in TaskIds : StopDel(t)
  \/ \E t \in TaskIds : StopClear(t)
  \/ \E v \in Variants, u \in Users : RemoveRead(v, u)
  \/ \E t \in TaskIds : RemoveDelBot(t)
  \/ \E t \in TaskIds : RemoveDelGame(t)
  \/ \E t \in TaskIds : RemoveClear(t)

Spec == Init /\ [][Next]_vars

SpecSerial == InitSerial /\ [][Next]_vars

SpecTagged == InitTagged /\ [][Next]_vars

\* a dice game of two players that beginGame has just written: each player
\* has paid the entry e, the countdown to the first round is running
InitDiceGame ==
  /\ botFlag = [v \in Variants |-> v = "dice"]
  /\ \E e \in 1..MaxStake :
       /\ game = [v \in Variants |->
            IF v = "dice"
            THEN Began(v, Joined(NewGame(v, 1, 1, e), v, 2))
            ELSE NoGame]
       /\ credits = [u \in Users |-> MaxStake - e]
  /\ lock = [v \in Variants |-> FALSE]
  /\ NoTagged
  /\ joinTimer = [v \in Variants |-> 0]
  /\ actionTimer = [v \in Variants |-> FALSE]
  /\ countdown = [v \in Variants |-> IF v = "dice" THEN 1 ELSE 0]
  /\ roundEnd = [v \in Variants |-> 0]
  /\ cleanup = [v \in Variants |-> 0]
  /\ tasks = <<>>
  /\ nextId = 2
  /\ expired = 1
  /\ botAdds = 1
  /\ elapsed = 0
  /\ NoChat
  /\ activeType = MarkerOf(botFlag)

\* the rounds of a dice game, one handler at a time
InitDiceSerial == InitDiceGame /\ maxInFlight = 1

NextDice ==
  \/ CountdownFire("dice")
  \/ \E t \in TaskIds : NextWrite(t)
  \/ \E u \in Users : RollRead(u)
  \/ \E t \in TaskIds : RollWrite(t)
  \/ RollTimerFire
  \/ RoundEndFire
  \/ \E t \in TaskIds : AutoWrite(t)
  \/ \E t \in TaskIds : TallyRead(t)
  \/ \E t \in TaskIds : TallyWrite(t)
  \/ \E t \in TaskIds : FinalizeRead(t)
  \/ \E t \in TaskIds : FinalizeWrite(t)
  \/ CleanupFire
  \/ \E u \in Users : CancelRead(u)
  \/ \E t \in TaskIds : CancelDel(t)

\* the first round of a dice game of two players as startNextRoundFlow
\* leaves it: the bot has rolled, the roll timer is running; the handlers
\* overlap at their suspension points
InitDiceRound ==
  /\ botFlag = [v \in Variants |-> v = "dice"]
  /\ \E b \in Rolls, e \in 1..MaxStake :
       /\ game = [v \in Variants |->
            IF v = "dice"
            THEN NextRound(Began(v, Joined(NewGame(v, 1, 1, e), v, 2)), b)
            ELSE NoGame]
       /\ credits = [u \in Users |-> MaxStake - e]
  /\ lock = [v \in Variants |-> FALSE]
  /\ NoTagged
  /\ joinTimer = [v \in Variants |-> 0]
  /\ actionTimer = [v \in Variants |-> v = "dice"]
  /\ countdown = [v \in Variants |-> 0]
  /\ roundEnd = [v \in Variants |-> 0]
  /\ cleanup = [v \in Variants |-> 0]
  /\ tasks = <<>>
  /\ nextId = 2
  /\ expired = 1
  /\ botAdds = 1
  /\ elapsed = 0
  /\ NoChat
  /\ activeType = MarkerOf(botFlag)
  /\ maxInFlight = MaxTasks

\* the handlers and callbacks of one round
NextDiceRound ==
  \/ \E u \in Users : RollRead(u)
  \/ \E t \in TaskIds : RollWrite(t)
  \/ RollTimerFire
  \/ RoundEndFire
  \/ \E t \in TaskIds : AutoWrite(t)
  \/ \E t \in TaskIds : TallyRead(t)
  \/ \E t \in TaskIds : TallyWrite(t)
  \/ \E t \in TaskIds : FinalizeRead(t)
  \/ \E t \in TaskIds : FinalizeWrite(t)

SpecDiceRound == InitDiceRound /\ [][NextDiceRound]_vars

SpecDiceSerial == InitDiceSerial /\ [][NextDice]_vars

\* the table of a card game: user 1 has started it, users 2..n have joined
RECURSIVE CardTable(_, _)
CardTable(n, e) ==
  IF n = 1 THEN NewGame("lowcard", 1, 1, e)
  ELSE Joined(CardTable(n - 1, e), "lowcard", n)

\* a card game of two to `most` players as the join timer's callback and its
\* countdown leave it: playing, round 1, the draw timer running, the stakes
\* debited
InitCardGame(most) ==
  /\ botFlag = [v \in Variants |-> v = "lowcard"]
  /\ \E n \in 2..most, e \in {MIN_ENTRY, MaxCardEntry} :
       game = [v \in Variants |->
         IF v = "lowcard" THEN Began(v, CardTable(n, e)) ELSE NoGame]
  /\ credits = [u \in CardUsers |-> 0]
  /\ tagged = [u \in CardUsers |-> 0]
  /\ lock = [v \in Variants |-> FALSE]
  /\ joinTimer = [v \in Variants |-> 0]
  /\ actionTimer = [v \in Variants |-> v = "lowcard"]
  /\ countdown = [v \in Variants |-> 0]
  /\ roundEnd = [v \in Variants |-> 0]
  /\ cleanup = [v \in Variants |-> 0]
  /\ tasks = <<>>
  /\ nextId = 2
  /\ expired = 1
  /\ botAdds = 1
  /\ elapsed = 1
  /\ NoChat
  /\ activeType = MarkerOf(botFlag)

\* the rounds of a card game, one handler at a time
InitCardSerial == InitCardGame(MaxCardPlayers) /\ maxInFlight = 1

\* the first round of a card game, the handlers overlapping at their
\* suspension points
InitCardRound == InitCardGame(MaxRacePlayers) /\ maxInFlight = MaxTasks

NextCard ==
  \/ Elapse
  \/ CardCountdownFire
  \/ \E u \in CardUsers : DrawRead(u)
  \/ \E t \in TaskIds : DrawWrite(t)
  \/ \E t \in TaskIds : DrawCheck(t)
  \/ DrawTimerFire
  \/ \E t \in TaskIds : CardAutoWrite(t)
  \/ CardRoundEndFire
  \/ \E t \in TaskIds : CardTallyRead(t)
  \/ \E t \in TaskIds : CardTallyDel(t)
  \/ \E t \in TaskIds : CardTallyWrite(t)

SpecCardSerial == InitCardSerial /\ [][NextCard]_vars

\* the handlers and callbacks of one round and of its tie-breaks
NextCardFirstRound ==
  \/ \E u \in CardUsers : DrawRead(u)
  \/ \E t \in TaskIds : DrawWrite(t)
  \/ \E t \in TaskIds : DrawCheck(t)
  \/ DrawTimerFire
  \/ \E t \in TaskIds : CardAutoWrite(t)
  \/ CardRoundEndFire
  \/ \E t \in TaskIds : CardTallyRead(t)
  \/ \E t \in TaskIds : CardTallyDel(t)
  \/ \E t \in TaskIds : CardTallyWrite(t)

SpecCardRound == InitCardRound /\ [][NextCardFirstRound]_vars

\* a room in which at most one bot is active, no game running, and the
\* messages sent to it
InitChat ==
  /\ InitRoom
  /\ NoTagged
  /\ maxInFlight = 1

NextChat ==
  \/ Receive
  \/ CheckSize
  \/ CheckFlood
  \/ CheckRate
  \/ CheckRoomSilence
  \/ CheckRoomLock
  \/ CheckUserSilence
  \/ CheckKick
  \/ CheckLegacySilence
  \/ CheckBan
  \/ Dispatch
  \/ CallHandler
  \/ Broadcast
  \/ Return
  \/ \E v \in Variants, u \in Users : AddBot(v, u)

SpecChat == InitChat /\ [][NextChat]_vars

\* a room without bots; the bot commands of the administrator, of the room's
\* owner and of the users, and the !start of the users, overlapping at their
\* suspension points
NextBots ==
  \/ \E v \in Variants, u \in Staff : AddRead(v, u)
  \/ \E t \in TaskIds : AddWrite(t)
  \/ \E v \in Variants, u \in Staff : RemoveRead(v, u)
  \/ \E t \in TaskIds : RemoveDelBot(t)
  \/ \E t \in TaskIds : RemoveDelGame(t)
  \/ \E t \in TaskIds : RemoveClear(t)
  \/ \E u \in Staff : StopRead(u)
  \/ \E t \in TaskIds : StopDel(t)
  \/ \E t \in TaskIds : StopClear(t)
  \/ \E v \in Variants, u \in Users, args \in StartArgs : StartLock(v, u, args)
  \/ \E t \in TaskIds : StartRead(t)
  \/ \E t \in TaskIds : StartDebit(t)
  \/ \E t \in TaskIds : StartWrite(t)
  \/ \E t \in TaskIds : StartUnlock(t)
  \/ \E t \in TaskIds : StartArm(t)

SpecBots == Init /\ [][NextBots]_vars


(* ------------------------------ properties ----------------------------- *)
\* no handler is in flight
Quiescent == tasks = <<>>

\* the join handlers of user u in flight that have debited u for session s
DebitedJoins(v, s, u) ==
  {t \in 1..Len(tasks) : /\ tasks[t].kind = "join" /\ tasks[t].pc = "write"
                         /\ tasks[t].v = v /\ tasks[t].user = u
                         /\ tasks[t].g.id = s}

\* the stored session s lists user u as a player
Recorded(v, s, u) ==
  /\ game[v].status # "absent"
  /\ game[v].id = s
  /\ u \in PlayerIds(game[v])

\* a start handler between taking the lock and releasing it
InStart(t, v) ==
  /\ tasks[t].kind = "start"
  /\ tasks[t].v = v
  /\ tasks[t].pc \in {"read", "debit", "write", "unlock"}

\* a start handler that holds the debit it made
StartDebited(t) == tasks[t].pc = "write" \/ (tasks[t].pc = "unlock" /\ tasks[t].ok)

\* C1: however many joins the same user sends concurrently for a waiting
\* session, the user is debited for that session once: there are never two
\* debits of one user for one session, whether both are held by joins in
\* flight or one of them is already recorded in the stored player list.
C1_DebitedOnce ==
  \A v \in Variants, u \in Users, s \in 1..MaxSessions :
    Cardinality(DebitedJoins(v, s, u)) + (IF Recorded(v, s, u) THEN 1 ELSE 0) <= 1

\* C2: a join is all-or-nothing: once every handler has finished, the users
\* who hold a debit for the room's only session, still waiting, are exactly
\* the users in its player list.
C2_AllOrNothing ==
  \A v \in Variants :
    (Quiescent /\ nextId = 2 /\ game[v].status = "waiting")
      => \A u \in Users : (u \in PlayerIds(game[v])) <=> (credits[u] < InitCredits)

\* C3: while a session is stored in waiting or playing status, no step of a
\* start command creates a session (the start's debit and the allocation of
\* the session id are one step) and no step replaces the stored session by
\* another one.
C3_StartOnExisting ==
  [][\A v \in Variants :
       Active(game[v]) =>
         /\ nextId' = nextId
         /\ Active(game'[v]) => game'[v].id = game[v].id]_vars

\* C3 witness: a start command that found the session and is about to return
\* its refusal
C3_Witness ==
  \E t \in 1..Len(tasks) :
    /\ tasks[t].kind = "start" /\ tasks[t].pc = "unlock" /\ ~tasks[t].ok
    /\ Active(game[tasks[t].v])
    /\ credits[tasks[t].user] >= tasks[t].amount

\* C4: of the start commands racing for an absent session at most one is
\* inside startGame's locked section holding a debit, however long the debit
\* takes.
C4_OneStarter ==
  \A v \in Variants :
    \A t1, t2 \in 1..Len(tasks) :
      (t1 # t2 /\ InStart(t1, v) /\ InStart(t2, v))
        => ~(StartDebited(t1) /\ StartDebited(t2))

\* the sum of f over the set S
RECURSIVE SumOver(_, _)
SumOver(S, f) ==
  IF S = {} THEN 0
  ELSE LET x == CHOOSE y \in S : TRUE IN f[x] + SumOver(S \ {x}, f)

\* the non-eliminated players of document g
Survivors(g) ==
  {g.players[i].userId : i \in {j \in 1..Len(g.players) : ~g.players[j].isEliminated}}

\* this step credits each user of `who` the entry amount of g once, and no
\* one else anything
CreditsEach(who, g) ==
  \A p \in Users :
    credits'[p] = credits[p] + (IF p \in who THEN g.entryAmount ELSE 0)

\* this step starts a handler that is left to do the given step
Leaves(kind, pc) ==
  /\ Len(tasks') = Len(tasks) + 1
  /\ tasks'[Len(tasks')].kind = kind
  /\ tasks'[Len(tasks')].pc = pc

\* C5: whenever a step stores a session in playing status that was not
\* playing before (beginGame's write), the stored pot is entryAmount times
\* the number of stored players.
C5_PotAtBegin ==
  [][\A v \in Variants :
       (game'[v].status = "playing" /\ game[v].status # "playing")
         => game'[v].pot = game'[v].entryAmount * Len(game'[v].players)]_vars

\* C5 witness: a game of two players has begun with the pot of two entries
C5_Witness ==
  \E v \in Variants :
    /\ game[v].status = "playing"
    /\ Len(game[v].players) = 2
    /\ game[v].pot = 2 * game[v].entryAmount

\* C6: no user id appears twice in the players of a stored session, and a
\* join by a user who is in the players it read goes no further: no join
\* handler is in flight for such a user.
C6_NoDuplicatePlayers ==
  /\ \A v \in Variants :
       game[v].status # "absent" => Cardinality(PlayerIds(game[v])) = Len(game[v].players)
  /\ \A t \in 1..Len(tasks) :
       tasks[t].kind = "join" => tasks[t].user \notin PlayerIds(tasks[t].g)

\* C6 witness: a second user has joined, and the first is asking again
C6_Witness ==
  \E v \in Variants :
    /\ game[v].status = "waiting"
    /\ Cardinality(PlayerIds(game[v])) = 2
    /\ Quiescent
    /\ \E u \in PlayerIds(game[v]) : ENABLED JoinRead(v, u)

\* C7: the cancel (dice) or stop (card) command of an administrator on a
\* waiting session credits every player of the session the entry amount once,
\* the credits sum up to the pot, and what is left of the handler is the
\* deletion of the session.
C7_CancelWaiting ==
  [][/\ \A u \in RoomAdmins \cup SysAdmins :
          (CancelRead(u) /\ game["dice"].status = "waiting")
            => /\ CreditsEach(PlayerIds(game["dice"]), game["dice"])
               /\ SumOver(Users, credits') - SumOver(Users, credits) = game["dice"].pot
               /\ Leaves("cancel", "del")
     /\ \A u \in SysAdmins :
          (StopRead(u) /\ game["lowcard"].status = "waiting")
            => /\ CreditsEach(PlayerIds(game["lowcard"]), game["lowcard"])
               /\ SumOver(Users, credits') - SumOver(Users, credits) = game["lowcard"].pot
               /\ Leaves("stop", "del")
     /\ \A t \in TaskIds :
          (CancelDel(t) \/ StopDel(t)) => game'[tasks[t].v] = NoGame]_vars

\* C7 witness: the players of a waiting session of two have their entry back
\* and the session is about to be deleted
C7_Witness ==
  \E t \in 1..Len(tasks) :
    /\ tasks[t].kind \in {"cancel", "stop"} /\ tasks[t].pc = "del"
    /\ game[tasks[t].v].status = "waiting"
    /\ Len(game[tasks[t].v].players) = 2
    /\ \A u \in Users : credits[u] = InitCredits

\* C8: the removal of the bot from a room with a waiting or playing session
\* credits every non-eliminated player of the session the entry amount.
C8_RemoveRefunds ==
  [][\A v \in Variants, u \in Users :
       (RemoveRead(v, u) /\ RemoveAllowed(v, u) /\ botFlag[v] /\ Active(game[v]))
         => CreditsEach(Survivors(game[v]), game[v])]_vars

\* the administrator's cancel command (dice) takes effect: the non-eliminated
\* players are credited the entry amount and the deletion is left
CancelTakesEffect ==
  \E u \in RoomAdmins \cup SysAdmins :
    /\ CancelRead(u)
    /\ CreditsEach(Survivors(game["dice"]), game["dice"])
    /\ Leaves("cancel", "del")

\* the administrator's stop command (card) takes effect in the same way
StopTakesEffect ==
  \E u \in SysAdmins :
    /\ StopRead(u)
    /\ CreditsEach(Survivors(game["lowcard"]), game["lowcard"])
    /\ Leaves("stop", "del")

\* the administrator's stop command changes something
StopChanges == \E u \in SysAdmins : StopRead(u) /\ vars' # vars

\* C9 as stated: in both variants the administrator's command takes effect on
\* a session in waiting or playing status.
C9_AnyStatusBothVariants ==
  /\ (CanSpawn /\ botFlag["dice"] /\ Active(game["dice"])) => ENABLED CancelTakesEffect
  /\ (CanSpawn /\ botFlag["lowcard"] /\ Active(game["lowcard"])) => ENABLED StopTakesEffect

\* C9 amended: the dice cancel of an administrator takes effect on a waiting
\* or playing session; the card stop takes effect on a waiting session only
\* and changes nothing once the game is playing.
C9_StopOnlyWhileWaiting ==
  /\ (CanSpawn /\ botFlag["dice"] /\ Active(game["dice"])) => ENABLED CancelTakesEffect
  /\ (CanSpawn /\ botFlag["lowcard"] /\ game["lowcard"].status = "waiting")
       => ENABLED StopTakesEffect
  /\ (botFlag["lowcard"] /\ game["lowcard"].status = "playing") => ~ENABLED StopChanges

\* C9 witness: the card game is playing, its bot is in the room and the
\* administrator's command can be handled
C9_Witness ==
  /\ CanSpawn
  /\ botFlag["lowcard"]
  /\ game["lowcard"].status = "playing"
  /\ Len(game["lowcard"].players) = 2

\* C10: the join timer firing on a waiting session has one of two outcomes.
\* With fewer than two players every player is credited the entry amount and
\* the deletion of the session is left; otherwise no one is credited and the
\* write of the session as playing is left, with the players it read, none of
\* them eliminated.
C10_JoinTimerOutcome ==
  [][/\ \A v \in Variants :
          (BeginRead(v) /\ game[v].status = "waiting")
            => IF Len(game[v].players) < 2
               THEN /\ CreditsEach(PlayerIds(game[v]), game[v])
                    /\ Leaves("begin", "del")
               ELSE /\ credits' = credits
                    /\ Leaves("begin", "write")
                    /\ tasks'[Len(tasks')].g = game[v]
     /\ \A t \in TaskIds :
          /\ BeginDel(t) => game'[tasks[t].v] = NoGame
          /\ BeginWrite(t)
               => /\ game'[tasks[t].v].status = "playing"
                  /\ Ids(game'[tasks[t].v].players) = Ids(tasks[t].g.players)
                  /\ Survivors(game'[tasks[t].v]) = PlayerIds(tasks[t].g)]_vars

\* C10 witness: the timer fired on a session of two and the game is playing
C10_Witness ==
  \E v \in Variants :
    /\ game[v].status = "playing"
    /\ joinTimer[v] = 0
    /\ expired >= game[v].id
    /\ Survivors(game[v]) = Users

\* this step of handler t is a debit that deductCredits refuses
StartDebitRefused(t) ==
  StartDebit(t) /\ ~DeductSucceeds(tasks[t].user, tasks[t].amount)

JoinDebitRefused(t) ==
  JoinDebit(t) /\ ~DeductSucceeds(tasks[t].user, tasks[t].g.entryAmount)

\* this step of handler t is startGame finding a game in progress or an
\* amount out of range
StartReadRefused(t) ==
  StartRead(t) /\ StartRejected(game[tasks[t].v], tasks[t].v, tasks[t].amount)

\* C11: a step that rejects a start or a join for a policy reason (a game in
\* progress, an amount out of range, a refused debit) leaves the session
\* documents, every balance of every user and the pending timers as they
\* were.  (A join refused on the session it read - not waiting, deadline
\* passed, already joined - is a step that changes no variable at all.)
C11_RejectionMutatesNothing ==
  [][\A t \in TaskIds :
       (StartReadRefused(t) \/ StartDebitRefused(t) \/ JoinDebitRefused(t))
         => UNCHANGED <<game, credits, tagged, joinTimer>>]_vars

\* C12: a call of deductCredits that returns failure leaves the main balance
\* and the promotional sub-balance of every user as they were, also when the
\* sub-balance covers a part of the amount and the main balance cannot cover
\* the rest.
C12_FailedDeductMutatesNothing ==
  [][\A t \in TaskIds :
       (StartDebitRefused(t) \/ JoinDebitRefused(t))
         => (credits' = credits /\ tagged' = tagged)]_vars

\* C13: whatever the starts, joins, cancellations and refunds of the room's
\* handlers and however they interleave, the main balance and the promotional
\* sub-balance of every user are non-negative integers.
C13_BalancesNonNegative ==
  \A u \in Users : credits[u] \in Nat /\ tagged[u] \in Nat

\* C13 witness: a user whose balance is down to 0 is asking for another debit
C13_Witness ==
  \E t \in 1..Len(tasks) :
    /\ tasks[t].kind \in {"start", "join"} /\ tasks[t].pc = "debit"
    /\ credits[tasks[t].user] = 0

\* the processRoundEnd calls of the dice room that have tallied the round:
\* each has set a countdown, or is finalizing the game, or has finalized it
TalliesDone ==
  countdown["dice"] + cleanup["dice"]
    + Cardinality({t \in 1..Len(tasks) :
                     tasks[t].kind = "end" /\ tasks[t].pc \in {"finalize", "finalwrite"}})

\* C14: a round is resolved once.  However the last player's !r and the roll
\* timer's callback interleave, the round is not tallied twice: no two
\* countdowns to the next round are set for it, and no countdown next to the
\* end of the game.
C14_RoundResolvedOnce == TalliesDone <= 1

\* C15: the timeout's auto-action happens once.  When autoRollForTimeout
\* writes, every player of the stored game who is still in and has not rolled
\* gets a roll, and the entry of every player who has rolled (by !r or by an
\* earlier run of the timeout path) stays as it is stored.
C15_AutoActionOnce ==
  [][\A t \in TaskIds :
       (AutoWrite(t) /\ game[tasks[t].v].status = "playing")
         => \A i \in 1..Len(game[tasks[t].v].players) :
              LET p == game[tasks[t].v].players[i]
                  q == game'[tasks[t].v].players[i]
              IN IF ~p.isEliminated /\ ~p.hasRolled
                 THEN q.hasRolled /\ <<q.die1, q.die2>> \in Rolls
                 ELSE q = p]_vars

\* the stored dice round has been tallied: tallyRound has taken the bot's
\* target away and startNextRound has not yet set a new one
RoundTallied(g) == g.status = "playing" /\ g.currentRound > 0 /\ g.botTarget = 0

\* C16: a round-end callback that runs on a round already tallied is a
\* no-op: when its tallyRound reads the session after the round was tallied,
\* what it goes on to do changes neither the session nor a balance and sets
\* no countdown and no timer.
C16_StaleCallbackNoOp ==
  [][\A t \in TaskIds :
       (TallyRead(t) /\ RoundTallied(game[tasks[t].v]))
         => /\ Len(tasks') < Len(tasks)
            /\ UNCHANGED <<game, credits, countdown, actionTimer>>]_vars

\* this step is the refund loop of a cancel, stop or bot-removal command on
\* the session of variant v
CancelRefunds(v) ==
  /\ credits' # credits
  /\ \E u \in Users :
       \/ v = "dice" /\ CancelRead(u)
       \/ v = "lowcard" /\ StopRead(u)
       \/ RemoveRead(v, u)

\* C17: when a cancel, stop or bot-removal command issues its refunds, every
\* deferred callback of the room's game has been stopped: no join timer, no
\* action timer and no countdown of that variant is pending any more.
C17_TimersStoppedBeforeRefund ==
  [][\A v \in Variants :
       CancelRefunds(v)
         => (joinTimer'[v] = 0 /\ ~actionTimer'[v] /\ countdown'[v] = 0)]_vars

\* this step is finalizeGame crediting a player of a stored dice session in
\* which exactly one player is not eliminated
DicePayout(t) ==
  /\ FinalizeRead(t)
  /\ tasks[t].v = "dice"
  /\ game["dice"].status # "absent"
  /\ Cardinality(ActiveIdx(game["dice"])) = 1

RolledDoubleSix(p) == p.die1 = 6 /\ p.die2 = 6

\* C20: dice immunity lasts one round.  A player who rolls (6,6) is in for
\* that round, whatever the target; the next round that startNextRound
\* writes gives immunity to exactly the players still in the game whose
\* entry shows a (6,6) from the round before, and leaves no immunity earned
\* in store, so a second round of immunity takes a second (6,6); a player
\* holding immunity who rolls is in; and tallyRound leaves no player with
\* immunity.
C20_ImmunityOneRound ==
  [][\A t \in TaskIds :
       /\ (NextWrite(t) /\ tasks[t].v = "dice")
            => \A i \in ActiveIdx(game'["dice"]) :
                 LET p == game["dice"].players[i]
                     q == game'["dice"].players[i]
                 IN  /\ q.hasImmunity = RolledDoubleSix(p)
                     /\ ~q.earnedImmunity
       /\ (RollWrite(t) \/ AutoWrite(t))
            => \A i \in ActiveIdx(game'["dice"]) :
                 LET q == game'["dice"].players[i]
                 IN  (q.hasRolled /\ (RolledDoubleSix(q) \/ q.hasImmunity))
                       => q.isIn = "true"
       /\ (TallyWrite(t) /\ tasks[t].v = "dice")
            => \A i \in ActiveIdx(game'["dice"]) :
                 ~game'["dice"].players[i].hasImmunity]_vars

\* C20 witness: in the last round one player holds no immunity while the
\* other, immune after the (6,6) of the round before, has stayed in with a
\* roll below the target
C20_Witness ==
  LET g == game["dice"] IN
    /\ g.status = "playing"
    /\ g.currentRound = MaxRounds
    /\ g.botTarget > 0
    /\ \E i, j \in ActiveIdx(g) :
         /\ ~g.players[i].hasImmunity
         /\ g.players[j].hasImmunity
         /\ g.players[j].hasRolled
         /\ g.players[j].total < g.botTarget
         /\ g.players[j].isIn = "true"

\* this step is tallyRound ending the session with a winner
CardGameOver(t) ==
  /\ CardTallyRead(t)
  /\ Len(tasks') = Len(tasks)
  /\ tasks'[t].pc = "del"

\* C19: card payout.  Whenever tallyRound ends a session with a winner, by
\* the three-player rule, by the tie-breaker timeout or with the last player
\* left, it credits a player who was still in pot - floor(pot x 0.05) and
\* nobody else anything; no payout was made for the session before; tallyRound
\* credits on no other path; and the session is then removed.
C19_CardPayoutOnce ==
  [][\A t \in TaskIds :
       /\ CardGameOver(t)
            => /\ tasks'[t].outcome \in {"highest", "tiebreak", "last"}
               /\ SumOver(CardUsers, credits) = 0
               /\ \E w \in Survivors(game["lowcard"]) :
                    credits' = Added(credits, w,
                      game["lowcard"].pot - game["lowcard"].pot \div 20)
       /\ (CardTallyRead(t) /\ credits' # credits) => CardGameOver(t)
       /\ CardTallyDel(t) => game'["lowcard"] = NoGame]_vars

\* C19 witness: tallyRound has ended a session with a winner, who holds the
\* pot less a commission that is not zero; the session is about to be removed
C19_Witness ==
  \E t \in 1..Len(tasks) :
    /\ tasks[t].kind = "cardend"
    /\ tasks[t].pc = "del"
    /\ tasks[t].outcome \in WinnerOutcomes
    /\ game["lowcard"].status = "playing"
    /\ game["lowcard"].pot \div 20 > 0
    /\ \E w \in CardUsers :
         credits[w] = game["lowcard"].pot - game["lowcard"].pot \div 20

\* player i of document g has rolled below the target and holds no immunity
BelowTarget(g, i) ==
  g.players[i].total < g.botTarget /\ ~g.players[i].hasImmunity

\* C21: dice void round.  When tallyRound's result is written, pot and player
\* list are as before; if every player still in rolled below the target
\* without immunity, nobody is eliminated, the target is cleared and the
\* countdown to a new round is set, and startNextRound gives that round a
\* newly rolled target; otherwise exactly the players who rolled below the
\* target without immunity are eliminated.
C21_VoidRoundOrElimination ==
  [][\A t \in TaskIds :
       /\ (TallyWrite(t) /\ tasks[t].v = "dice")
            => LET g == game["dice"]
                   h == game'["dice"]
               IN  /\ h.pot = g.pot
                   /\ Ids(h.players) = Ids(g.players)
                   /\ IF \A i \in ActiveIdx(g) : BelowTarget(g, i)
                      THEN /\ ActiveIdx(h) = ActiveIdx(g)
                           /\ h.status = "playing"
                           /\ h.botTarget = 0
                           /\ countdown'["dice"] = countdown["dice"] + 1
                      ELSE ActiveIdx(h)
                             = ActiveIdx(g) \ {i \in ActiveIdx(g) : BelowTarget(g, i)}
       /\ (NextWrite(t) /\ tasks[t].v = "dice")
            => /\ game'["dice"].currentRound = game["dice"].currentRound + 1
               /\ game'["dice"].botTarget \in {Total(b) : b \in Rolls}]_vars

\* C21 witness: a round has been declared void: both players are still in,
\* their rolls are cleared, there is no target and the countdown is set
C21_Witness ==
  LET g == game["dice"] IN
    /\ g.status = "playing"
    /\ g.currentRound >= 1
    /\ g.botTarget = 0
    /\ Cardinality(ActiveIdx(g)) = 2
    /\ \A i \in ActiveIdx(g) : ~g.players[i].hasRolled
    /\ countdown["dice"] = 1

\* player i of document g holds a card higher than that of every other player
\* still in
StrictlyHighest(g, i) ==
  \A j \in ActiveIdx(g) \ {i} :
    g.players[i].currentCard > g.players[j].currentCard

\* C22: the three-player rule of the card variant.  When tallyRound runs for
\* a round that did not time out, three players are still in and one of them
\* holds the strictly highest card, the game ends at once and that player is
\* paid as the winner; and tallyRound ends a game by this rule only with
\* three players still in, in a round that did not time out, for the holder
\* of the strictly highest card.
C22_ThreePlayerRule ==
  [][\A t \in TaskIds :
       /\ (/\ CardTallyRead(t)
           /\ game["lowcard"].status = "playing"
           /\ ~tasks[t].isTimedOut
           /\ Cardinality(ActiveIdx(game["lowcard"])) = 3)
            => \A i \in ActiveIdx(game["lowcard"]) :
                 StrictlyHighest(game["lowcard"], i)
                   => /\ CardGameOver(t)
                      /\ credits' = Added(credits,
                           game["lowcard"].players[i].userId,
                           game["lowcard"].pot - game["lowcard"].pot \div 20)
       /\ (CardGameOver(t) /\ tasks'[t].outcome = "highest")
            => /\ ~tasks[t].isTimedOut
               /\ Cardinality(ActiveIdx(game["lowcard"])) = 3
               /\ \E i \in ActiveIdx(game["lowcard"]) :
                    /\ StrictlyHighest(game["lowcard"], i)
                    /\ credits'[game["lowcard"].players[i].userId]
                         > credits[game["lowcard"].players[i].userId]]_vars

\* C22 witness: a game of four is down to three players and has been ended by
\* the three-player rule
C22_Witness ==
  \E t \in 1..Len(tasks) :
    /\ tasks[t].kind = "cardend"
    /\ tasks[t].pc = "del"
    /\ tasks[t].outcome = "highest"
    /\ game["lowcard"].status = "playing"
    /\ Len(game["lowcard"].players) = 4
    /\ Cardinality(ActiveIdx(game["lowcard"])) = 3

\* the players still in whose card no other player still in undercuts
LowestIdx(g) ==
  {i \in ActiveIdx(g) :
     \A j \in ActiveIdx(g) : g.players[i].currentCard <= g.players[j].currentCard}

\* C23: card tie handling.  With four players still in and two of them tied
\* for the lowest card, the tally of a round that did not time out eliminates
\* nobody and writes a document in which those two have no card and have not
\* drawn and the other two are as they were; and the tally of a timed-out
\* round in which the two tied for lowest are the two of the tie before
\* eliminates both of them together and nobody else.
C23_TieOfTwoAmongFour ==
  [][\A t \in TaskIds :
       (/\ CardTallyRead(t)
        /\ game["lowcard"].status = "playing"
        /\ Cardinality(ActiveIdx(game["lowcard"])) = 4
        /\ Cardinality(LowestIdx(game["lowcard"])) = 2)
         => LET g == game["lowcard"] IN
              /\ ~tasks[t].isTimedOut
                   => /\ Len(tasks') = Len(tasks)
                      /\ tasks'[t].pc = "tallywrite"
                      /\ credits' = credits
                      /\ \A i \in 1..Len(g.players) :
                           IF i \in LowestIdx(g)
                           THEN /\ ~tasks'[t].g.players[i].isEliminated
                                /\ tasks'[t].g.players[i].currentCard = 0
                                /\ ~tasks'[t].g.players[i].hasDrawn
                           ELSE tasks'[t].g.players[i] = g.players[i]
              /\ (/\ tasks[t].isTimedOut
                  /\ g.previousTiedLosers
                       = {g.players[i].userId : i \in LowestIdx(g)})
                   => /\ Len(tasks') = Len(tasks)
                      /\ tasks'[t].pc = "tallywrite"
                      /\ ActiveIdx(tasks'[t].g) = ActiveIdx(g) \ LowestIdx(g)]_vars

\* C23 witness: four players were in, two of them tied for lowest a second
\* time in a timed-out round, and the tally is about to write them both out
C23_Witness ==
  \E t \in 1..Len(tasks) :
    /\ tasks[t].kind = "cardend"
    /\ tasks[t].pc = "tallywrite"
    /\ Cardinality(ActiveIdx(game["lowcard"])) = 4
    /\ Cardinality(LowestIdx(game["lowcard"])) = 2
    /\ game["lowcard"].previousTiedLosers
         = {game["lowcard"].players[i].userId : i \in LowestIdx(game["lowcard"])}
    /\ Cardinality(ActiveIdx(tasks[t].g)) = 2

\* the players of document g who are named in previousTiedLosers
TiedIdx(g) ==
  {i \in 1..Len(g.players) : g.players[i].userId \in g.previousTiedLosers}

\* C24: tie-break exemption of the card variant.  The tally of a tie-break
\* round, one that starts with previousTiedLosers set, eliminates only players
\* of the tied set: the players it writes as eliminated, or leaves behind the
\* last player, are all named in previousTiedLosers.
C24_TieBreakExemption ==
  [][\A t \in TaskIds :
       (/\ CardTallyRead(t)
        /\ game["lowcard"].status = "playing"
        /\ game["lowcard"].previousTiedLosers # {}
        /\ Len(tasks') = Len(tasks))
         => LET g == game["lowcard"] IN
              /\ tasks'[t].pc = "tallywrite"
                   => ActiveIdx(g) \ ActiveIdx(tasks'[t].g) \subseteq TiedIdx(g)
              /\ (tasks'[t].pc = "del" /\ tasks'[t].outcome = "last")
                   => \A i \in ActiveIdx(g) :
                        credits'[g.players[i].userId] = credits[g.players[i].userId]
                          => i \in TiedIdx(g)]_vars

\* C24 witness: the tally of a tie-break round is about to write a player out
C24_Witness ==
  \E t \in 1..Len(tasks) :
    /\ tasks[t].kind = "cardend"
    /\ tasks[t].pc = "tallywrite"
    /\ game["lowcard"].status = "playing"
    /\ game["lowcard"].previousTiedLosers # {}
    /\ ActiveIdx(tasks[t].g) # ActiveIdx(game["lowcard"])

\* the tally of document g finds the lowest card shared by more than one but
\* fewer than all of the players still in, after a tie, and the three-player
\* rule does not end the game
TiedAgain(g, isTimedOut) ==
  /\ g.status = "playing"
  /\ g.previousTiedLosers # {}
  /\ Cardinality(LowestIdx(g)) > 1
  /\ Cardinality(LowestIdx(g)) < Cardinality(ActiveIdx(g))
  /\ isTimedOut \/ Cardinality(ActiveIdx(g)) # 3

\* C25: tie-break timeout elimination of the card variant.  When the tally
\* after a tie finds a tie for lowest again, it eliminates the previously tied
\* players together if the round timed out and the players now tied are the
\* previously tied ones, and in every other case it eliminates nobody: in
\* particular the previously tied players stay in when the new tie is among
\* a different set of players.
C25_TieBreakTimeoutSameSet ==
  [][\A t \in TaskIds :
       (CardTallyRead(t) /\ TiedAgain(game["lowcard"], tasks[t].isTimedOut))
         => LET g == game["lowcard"]
                same == g.previousTiedLosers
                          = {g.players[i].userId : i \in LowestIdx(g)}
            IN  /\ Len(tasks') = Len(tasks)
                /\ IF tasks[t].isTimedOut /\ same
                   THEN \/ /\ tasks'[t].pc = "tallywrite"
                           /\ ActiveIdx(tasks'[t].g) = ActiveIdx(g) \ TiedIdx(g)
                        \/ /\ tasks'[t].pc = "del"
                           /\ Cardinality(ActiveIdx(g) \ TiedIdx(g)) = 1
                   ELSE /\ tasks'[t].pc = "tallywrite"
                        /\ ActiveIdx(tasks'[t].g) = ActiveIdx(g)]_vars

\* C25 witness: after a tie, a round ends with a tie for lowest among players
\* other than the previously tied ones, and the tally has eliminated players
C25_Witness ==
  \E t \in 1..Len(tasks) :
    /\ tasks[t].kind = "cardend"
    /\ \/ tasks[t].pc = "del"
       \/ /\ tasks[t].pc = "tallywrite"
          /\ ActiveIdx(tasks[t].g) # ActiveIdx(game["lowcard"])
    /\ TiedAgain(game["lowcard"], TRUE)
    /\ TiedIdx(game["lowcard"]) \cap LowestIdx(game["lowcard"]) = {}
    /\ \A i \in ActiveIdx(game["lowcard"]) : game["lowcard"].players[i].hasDrawn

\* user u has an entry in document g and every entry of u is eliminated
IsOut(g, u) ==
  /\ g.status # "absent"
  /\ \E i \in 1..Len(g.players) : g.players[i].userId = u
  /\ \A i \in 1..Len(g.players) :
       g.players[i].userId = u => g.players[i].isEliminated

\* C26: elimination is permanent within a session.  While the session of a
\* variant is stored, no step changes who its players are or turns an
\* isEliminated that is true back to false, and a !r or !d of a player who is
\* out starts no roll and no draw.
C26_EliminationPermanent ==
  [][/\ \A v \in Variants :
          (game[v].status # "absent" /\ game'[v].status # "absent")
            => /\ Ids(game'[v].players) = Ids(game[v].players)
               /\ \A i \in 1..Len(game[v].players) :
                    game[v].players[i].isEliminated
                      => game'[v].players[i].isEliminated
     /\ \A u \in CardUsers :
          /\ (IsOut(game["dice"], u) /\ RollRead(u)) => UNCHANGED vars
          /\ IsOut(game["lowcard"], u) => ~DrawRead(u)]_vars

\* C26 witness: a player of the stored session is out while the game goes on
\* and a handler of that game is still in flight
C26_Witness ==
  \E v \in Variants :
    /\ game[v].status = "playing"
    /\ \E u \in CardUsers : IsOut(game[v], u)
    /\ \E t \in 1..Len(tasks) : tasks[t].v = v

\* C27: the stored status of a session never goes back.  No step takes the
\* stored session of a variant from playing to waiting, or from finished to
\* playing or waiting.
C27_StatusNeverGoesBack ==
  [][\A v \in Variants :
       /\ game[v].status = "playing" => game'[v].status # "waiting"
       /\ game[v].status = "finished"
            => game'[v].status \notin {"playing", "waiting"}]_vars

\* C27 witness: the game has begun while a join that read the waiting session
\* has not yet written its document
C27_Witness ==
  \E v \in Variants, t \in 1..Len(tasks) :
    /\ game[v].status = "playing"
    /\ tasks[t].kind = "join"
    /\ tasks[t].v = v
    /\ tasks[t].pc = "write"

\* the gates of the message pipeline in the order the contract gives them
GateOrder ==
  <<"size", "flood", "rate", "roomSilence", "roomLock", "userSilence", "kick",
    "legacySilence", "ban">>

\* the message with these facts fails the k-th gate
FailsGate(k, facts) ==
  LET gate == GateOrder[k] IN
    \/ gate = "size" /\ "tooLong" \in facts
    \/ gate = "flood" /\ "flooding" \in facts
    \/ gate = "rate" /\ "rateLimited" \in facts
    \/ gate = "roomSilence" /\ "roomSilenced" \in facts /\ "privileged" \notin facts
    \/ gate = "roomLock" /\ "roomLocked" \in facts /\ "privileged" \notin facts
    \/ gate = "userSilence" /\ "userSilenced" \in facts
    \/ gate = "kick" /\ "kicked" \in facts
    \/ gate = "legacySilence" /\ "legacySilenced" \in facts
    \/ gate = "ban" /\ "banned" \in facts

\* the first gate the message fails, 0 if it passes them all
FirstFailing(facts) ==
  IF \E k \in 1..Len(GateOrder) : FailsGate(k, facts)
  THEN CHOOSE k \in 1..Len(GateOrder) :
         /\ FailsGate(k, facts)
         /\ \A j \in 1..(k - 1) : ~FailsGate(j, facts)
  ELSE 0

\* C28: the ingress gates are evaluated in the order size limit, flood
\* control, global rate limit, room silence, room lock, user silence, kick,
\* legacy silence, room ban, and the first failure ends the processing.  For
\* a message that fails a gate, the checks made are at every moment the gates
\* of that order up to the first failing one at most; everything emitted is
\* the notice of the first failing gate, to the sender; no game command
\* handler is called and nothing goes to the room; and when sendMessage is
\* done that notice has been emitted.
C28_GatesInOrder ==
  (sending # NoMessage /\ FirstFailing(sending.facts) # 0)
    => LET k == FirstFailing(sending.facts) IN
         /\ Len(sending.checked) <= k
         /\ sending.checked = SubSeq(GateOrder, 1, Len(sending.checked))
         /\ handlerCalls = <<>>
         /\ \A i \in 1..Len(emitted) :
              emitted[i].to = "sender" /\ emitted[i].about = GateOrder[k]
         /\ sending.pc \notin {"dispatch", "handlers", "chat"}
         /\ sending.pc = "done"
              => /\ Len(sending.checked) = k
                 /\ emitted # <<>>

\* C28 witness: a command of a sender who is kicked, silenced the legacy way
\* and banned has been refused by the kick gate
C28_Witness ==
  /\ sending # NoMessage
  /\ sending.pc = "done"
  /\ sending.text = "!d"
  /\ {"kicked", "legacySilenced", "banned"} \subseteq sending.facts
  /\ FirstFailing(sending.facts) = 7
  /\ emitted # <<>>

\* the message has passed every gate and the dispatcher has read the room's
\* active game type for it
Dispatched ==
  /\ sending # NoMessage
  /\ FirstFailing(sending.facts) = 0
  /\ IsCommand(sending.text)
  /\ sending.pc \in {"handlers", "chat", "done"}

\* C29: action verbs are exclusive per game type.  A !d sent while the
\* room's active game type is not the card variant, and a !r or !roll sent
\* while it is not the dice variant, is ignored silently: no handler is
\* called for it, so no session and no balance changes, nothing is emitted to
\* the sender or the room, and sendMessage is done.  Hence the card handler
\* gets a !d and the dice handler a !r or !roll only while the game type is
\* theirs.
C29_ActionVerbsExclusive ==
  Dispatched
    => LET l == Lower(sending.text)
           a == sending.gameType
       IN  /\ ((l = "!d" /\ a # "lowcard") \/ (l \in {"!r", "!roll"} /\ a # "dice"))
                => /\ handlerCalls = <<>>
                   /\ emitted = <<>>
                   /\ sending.pc = "done"
           /\ \A i \in 1..Len(handlerCalls) :
                /\ (l = "!d" /\ handlerCalls[i].handler = "lowcard")
                     => a = "lowcard"
                /\ (l \in {"!r", "!roll"} /\ handlerCalls[i].handler = "dice")
                     => a = "dice"

\* C29 witness: a !r sent to a room with the card bot, whose active game type
\* is the card variant, has been dropped
C29_Witness ==
  /\ Dispatched
  /\ sending.pc = "done"
  /\ sending.text = "!r"
  /\ sending.gameType = "lowcard"
  /\ botFlag["lowcard"]
  /\ handlerCalls = <<>>

\* C30: a sigil-prefixed token that is unknown, or that no handler accepts,
\* is swallowed silently.  When sendMessage is done with a command that has
\* passed every gate and that no handler has taken, nothing has been emitted:
\* the text has not gone to the room as a chat message.
C30_UnhandledCommandSwallowed ==
  (/\ Dispatched
   /\ sending.pc = "done"
   /\ \A i \in 1..Len(handlerCalls) : ~handlerCalls[i].handled)
    => emitted = <<>>

\* C30 witness: the card variant is the active game type, its bot is in the
\* room, and sendMessage is done with a !join that every handler declined
C30_Witness ==
  /\ Dispatched
  /\ sending.pc = "done"
  /\ sending.text = "!join"
  /\ sending.gameType = "lowcard"
  /\ botFlag["lowcard"]
  /\ Len(handlerCalls) = 4
  /\ \A i \in 1..Len(handlerCalls) : ~handlerCalls[i].handled

\* C31: bot-admin commands are administrator-role only.  The add, remove, off
\* and stop commands of a sender whose role is neither admin nor super_admin
\* change nothing: no bot flag, no marker, no session, no balance, and no
\* handler is left in flight to change one.
C31_BotCommandsAdminOnly ==
  [][\A u \in Staff \ SysAdmins :
       /\ \A v \in Variants : (AddRead(v, u) \/ RemoveRead(v, u)) => UNCHANGED vars
       /\ StopRead(u) => UNCHANGED vars]_vars

\* C31 witness: the card bot is in the room with a waiting session and its
\* removal has refunded the starter and is about to delete the bot flag
C31_Witness ==
  \E t \in 1..Len(tasks) :
    /\ tasks[t].kind = "remove"
    /\ tasks[t].v = "lowcard"
    /\ tasks[t].pc = "del"
    /\ botFlag["lowcard"]
    /\ game["lowcard"].status = "waiting"
    /\ \A u \in Users : credits[u] = InitCredits

\* C32: only one bot type is active in a room at a time.  The dice and the
\* card bot flag never exist together, and whenever no add or remove command
\* is in flight the marker names the type whose flag exists, or none.
C32_OneBotType ==
  /\ ~(botFlag["dice"] /\ botFlag["lowcard"])
  /\ (\A t \in 1..Len(tasks) : tasks[t].kind \notin {"add", "remove"})
       => activeType = MarkerOf(botFlag)

\* C32 witness: two add commands for different game types have overlapped
\* and both have written
C32_Witness ==
  /\ tasks = <<>>
  /\ botFlag["dice"]
  /\ botFlag["lowcard"]

\* the handlers' emits of credits:updated, by the command or callback that
\* moves the credits: "user" is socket.emit to the socket of the sender, whose
\* balance it carries; "room" is io.to(room).emit; the handlers of the refunds
\* (cancel, timer with too few players, stop, bot removal) emit none
CreditsUpdated(kind) ==
  IF kind \in {"start", "join"} THEN "user"
  ELSE IF kind \in {"end", "cardend"} THEN "room"
  ELSE "none"

\* C33: whenever a ledger balance changes through the engine (the debit of a
\* start or join, the refund of a cancel, of a join timer with too few
\* players, of a stop or a bot removal), the handler that moved the credits
\* emits credits:updated to the user's own channel, not to the room.
C33_BalanceChangeNotified ==
  [][credits' # credits =>
       \/ \E t \in TaskIds : /\ (StartDebit(t) \/ JoinDebit(t))
                              /\ CreditsUpdated(tasks[t].kind) = "user"
       \/ /\ \E v \in Variants : BeginRead(v)
          /\ CreditsUpdated("begin") = "user"
       \/ /\ \E u \in Users : CancelRead(u)
          /\ CreditsUpdated("cancel") = "user"
       \/ /\ \E u \in Users : StopRead(u)
          /\ CreditsUpdated("stop") = "user"
       \/ /\ \E v \in Variants, u \in Users : RemoveRead(v, u)
          /\ CreditsUpdated("remove") = "user"]_vars

\* C33 witness: a session has been cancelled and its starter has the stake
\* back
C33_Witness ==
  /\ \E t \in 1..Len(tasks) : tasks[t].kind = "cancel" /\ tasks[t].pc = "del"
  /\ game["dice"].status = "waiting"
  /\ \A u \in Users : credits[u] = InitCredits

\* C34: no player action is accepted for a round before the announcement
\* that the round begins has been emitted, tie-break rounds included: while
\* the countdown whose callback announces the round is pending, no !d is
\* accepted.
C34_NoDrawBeforeRoundBegins ==
  [][\A u \in CardUsers : DrawRead(u) => countdown["lowcard"] = 0]_vars

\* C34 witness: a tie has been tallied, the countdown to the tie-break round
\* is pending and a tied player's draw has been accepted
C34_Witness ==
  /\ countdown["lowcard"] > 0
  /\ game["lowcard"].status = "playing"
  /\ game["lowcard"].previousTiedLosers # {}
  /\ \E t \in 1..Len(tasks) : tasks[t].kind = "draw" /\ tasks[t].pc = "write"

\* C35: concurrent round actions cannot overwrite each other.  A write of
\* the session by a !r handler or by the timeout's auto-roll keeps every roll
\* that is stored: a player who has rolled still has, with the same dice.
C35_NoLostRoll ==
  [][\A t \in TaskIds :
       (RollWrite(t) \/ AutoWrite(t)) =>
         \A i \in 1..Len(game["dice"].players) :
           (game["dice"].status = "playing" /\ game["dice"].players[i].hasRolled)
             => game'["dice"].players[i] = game["dice"].players[i]]_vars

\* C35 witness: the !r handlers of two players overlap, each holding the
\* session it read before the other has written
C35_Witness ==
  /\ Len(tasks) = 2
  /\ \A t \in 1..2 : tasks[t].kind = "roll" /\ tasks[t].pc = "write"
  /\ tasks[1].user # tasks[2].user

\* the dice game with !start open again once a session has finished: the
\* finished document stays for the retention time and startGame writes over
\* it
NextDiceRetention ==
  \/ NextDice
  \/ \E v \in Variants, u \in Users, args \in StartArgs : StartLock(v, u, args)
  \/ \E t \in TaskIds : StartRead(t)
  \/ \E t \in TaskIds : StartDebit(t)
  \/ \E t \in TaskIds : StartWrite(t)
  \/ \E t \in TaskIds : StartUnlock(t)
  \/ \E t \in TaskIds : StartArm(t)

SpecDiceRetention == InitDiceSerial /\ [][NextDiceRetention]_vars

\* C36: the delayed cleanup that finalizeGame schedules removes only the
\* finished session: it never deletes a session that is waiting or playing.
C36_CleanupOnlyFinished ==
  [][CleanupFire => ~Active(game["dice"])]_vars

\* C36 witness: a session has finished, its cleanup is pending, and a new
\* session has been started and is waiting with its join timer armed
C36_Witness ==
  /\ cleanup["dice"] > 0
  /\ game["dice"].status = "waiting"
  /\ game["dice"].id = 2
  /\ joinTimer["dice"] = 2
  /\ tasks = <<>>

\* C37: a session that is playing has at least one player who is not
\* eliminated: no round resolution eliminates all the players that remain.
C37_SomeoneStillPlaying ==
  \A v \in Variants :
    game[v].status = "playing" => ActiveIdx(game[v]) # {}

\* C37 witness: a round has been resolved with an elimination and the card
\* game goes on
C37_Witness ==
  /\ game["lowcard"].status = "playing"
  /\ game["lowcard"].currentRound > 1
  /\ \E i \in 1..Len(game["lowcard"].players) :
       game["lowcard"].players[i].isEliminated
  /\ tasks = <<>>

\* C38: no credits are created.  Whatever the interleaving of the join
\* timer, cancel, stop, bot removal and the handlers of start and join, what
\* the sessions have credited never exceeds what they have debited: the
\* balances together never exceed what the users held at the beginning.
C38_NoCreditsCreated ==
  SumOver(Users, credits) <= SumOver(Users, [u \in Users |-> InitCredits])

\* C38 witness: a waiting session has been refunded by a handler that has
\* not deleted it yet, and every user holds the initial balance again
C38_Witness ==
  /\ \E v \in Variants :
       /\ game[v].status = "waiting"
       /\ \E t \in 1..Len(tasks) :
            /\ tasks[t].v = v
            /\ tasks[t].kind \in {"cancel", "stop", "remove", "begin"}
            /\ tasks[t].pc = "del"
  /\ \A u \in Users : credits[u] = InitCredits

\* C39: a deleted session stays deleted.  Once the session of a game is
\* absent, the only step that stores a session again is the write of a
\* successful !start: no handler that read the session earlier writes it
\* back.
C39_DeletedStaysDeleted ==
  [][\A v \in Variants :
       (game[v].status = "absent" /\ game'[v].status # "absent")
         => \E t \in TaskIds : StartWrite(t) /\ tasks[t].v = v]_vars

\* C39 witness: a session has been deleted while a join that read it is
\* still in flight, the stake debited
C39_Witness ==
  \E v \in Variants, t \in 1..Len(tasks) :
    /\ game[v].status = "absent"
    /\ tasks[t].kind = "join"
    /\ tasks[t].v = v
    /\ tasks[t].pc = "write"

\* a step of the handler or callback at position t of those in flight,
\* between !start and the end of the join window
JoinWindowStep(t) ==
  \/ StartRead(t) \/ StartDebit(t) \/ StartWrite(t) \/ StartUnlock(t)
  \/ StartArm(t)
  \/ JoinDebit(t) \/ JoinWrite(t) \/ JoinWriteFail(t)
  \/ BeginDel(t) \/ BeginWrite(t)

\* the join window with nobody cancelling: !start, !j and the join timer
NextJoinWindow ==
  \/ \E v \in Variants, u \in Users : AddBot(v, u)
  \/ \E v \in Variants, u \in Users, args \in StartArgs : StartLock(v, u, args)
  \/ \E v \in Variants, u \in Users : JoinRead(v, u)
  \/ \E v \in Variants : BeginRead(v)
  \/ \E t \in TaskIds : JoinWindowStep(t)

\* the event loop resumes every handler whose await has settled and runs
\* every timer that is due; the users' commands come as they please
SpecJoinWindow ==
  /\ Init
  /\ [][NextJoinWindow]_vars
  /\ \A t \in TaskIds : WF_vars(JoinWindowStep(t))
  /\ \A v \in Variants : SF_vars(BeginRead(v))

\* C40: every session that enters waiting eventually leaves waiting: with
\* nobody cancelling, the join timer armed by the !start moves it to playing
\* or deletes it, however the joins interleave with the timer.
C40_WaitingEnds ==
  \A v \in Variants : (game[v].status = "waiting") ~> (game[v].status # "waiting")

\* C40 witness: a session is waiting with no join timer pending and no
\* handler in flight after a join has overlapped the timer's callback
C40_Witness ==
  \E v \in Variants :
    /\ game[v].status = "waiting"
    /\ joinTimer[v] = 0
    /\ tasks = <<>>
    /\ Len(game[v].players) = 2

====
